---- MODULE Spec2Model ----
(***************************************************************************)
(* Catalog normalization and fast-search indexing engine of the IMSS       *)
(* medication catalog: the text canonicalizer, the schema manager, the     *)
(* normalization pass, the search accelerator and the quick health check,  *)
(* over a model of the SQLite store (catalog table, group table, metadata  *)
(* table) and of the connection the optimizer works through.               *)
(*                                                                         *)
(* Texts are sequences of one-character strings.  The non-ASCII characters *)
(* of the catalog are written with ASCII names: "a'" is U+00E1 (a with     *)
(* acute), "A'" is U+00C1, "u'" is U+03BC (mu), "U'" is U+039C.            *)
(***************************************************************************)
EXTENDS Integers, Sequences, FiniteSets, TLC

(***************************************************************************)
(* Characters: the classes of Python's re module (str patterns: \w, \s, \d *)
(* are Unicode-aware) and str.lower / str.upper.                           *)
(***************************************************************************)
LowerLetters ==
    <<"a", "b", "c", "d", "e", "f", "g", "h", "i", "j", "k", "l", "m",
      "n", "o", "p", "q", "r", "s", "t", "u", "v", "w", "x", "y", "z",
      "a'", "u'">>

UpperLetters ==
    <<"A", "B", "C", "D", "E", "F", "G", "H", "I", "J", "K", "L", "M",
      "N", "O", "P", "Q", "R", "S", "T", "U", "V", "W", "X", "Y", "Z",
      "A'", "U'">>

Digits == {"0", "1", "2", "3", "4", "5", "6", "7", "8", "9"}

Range(f) == {f[i] : i \in DOMAIN f}

IsDigit(c) == c \in Digits

Spaces == {" ", "\t", "\n"}

IsSpace(c) == c \in Spaces

IsLetter(c) == c \in Range(LowerLetters) \cup Range(UpperLetters)

\* \w: letters, digits and the underscore
IsWord(c) == IsLetter(c) \/ IsDigit(c) \/ c = "_"

IndexIn(seq, c) == CHOOSE i \in DOMAIN seq : seq[i] = c

lower_char(c) ==
    IF c \in Range(UpperLetters) THEN LowerLetters[IndexIn(UpperLetters, c)] ELSE c

upper_char(c) ==
    IF c \in Range(LowerLetters) THEN UpperLetters[IndexIn(LowerLetters, c)] ELSE c

lower(t) == [i \in DOMAIN t |-> lower_char(t[i])]

upper(t) == [i \in DOMAIN t |-> upper_char(t[i])]

(***************************************************************************)
(* Regular-expression machinery.  A matcher M(t, i) returns the index just *)
(* after the match of its pattern that starts at position i of t, or 0     *)
(* when the pattern does not match at i.  None of the patterns of the      *)
(* canonicalizer can match the empty string.                               *)
(***************************************************************************)

\* the literal w occurs in t at position i
LiteralAt(t, i, w) ==
    /\ i >= 1
    /\ i + Len(w) - 1 <= Len(t)
    /\ \A j \in 1..Len(w) : t[i + j - 1] = w[j]

\* \b between t[i-1] and t[i]
BoundaryAt(t, i) ==
    (i > 1 /\ i - 1 <= Len(t) /\ IsWord(t[i - 1])) # (i >= 1 /\ i <= Len(t) /\ IsWord(t[i]))

\* index just after the longest run of characters of `class` starting at i
RunEnd(class, t, i) ==
    LET G[j \in 1..(Len(t) + 1)] ==
            IF j <= Len(t) /\ t[j] \in class THEN G[j + 1] ELSE j
    IN  IF i > Len(t) THEN i ELSE G[i]

\* first alternative of the list `words` that occurs at i, as the index just
\* after it; when `bounded`, the alternative must be followed by \b
AlternativeEnd(t, i, words, bounded) ==
    LET G[n \in 1..(Len(words) + 1)] ==
            IF n > Len(words) THEN 0
            ELSE IF /\ LiteralAt(t, i, words[n])
                    /\ (bounded => BoundaryAt(t, i + Len(words[n])))
                 THEN i + Len(words[n])
                 ELSE G[n + 1]
    IN  G[1]

SaltWords ==
    << <<"c", "l", "o", "r", "h", "i", "d", "r", "a", "t", "o">>,
       <<"s", "u", "l", "f", "a", "t", "o">>,
       <<"b", "e", "s", "i", "l", "a", "t", "o">>,
       <<"m", "a", "l", "e", "a", "t", "o">>,
       <<"t", "a", "r", "t", "r", "a", "t", "o">>,
       <<"c", "i", "t", "r", "a", "t", "o">>,
       <<"a", "c", "e", "t", "a", "t", "o">>,
       <<"b", "r", "o", "m", "u", "r", "o">> >>

UnitWords ==
    << <<"m", "g">>, <<"g">>, <<"m", "l">>, <<"m", "c", "g">>, <<"u'", "g">>,
       <<"u", "i">>, <<"%">>, <<"m", "E", "q">> >>

FormWords ==
    << <<"t", "a", "b", "l", "e", "t", "a">>,
       <<"c", "a", "p", "s", "u", "l", "a">>,
       <<"a", "m", "p", "o", "l", "l", "e", "t", "a">>,
       <<"s", "o", "l", "u", "c", "i", "o", "n">>,
       <<"c", "r", "e", "m", "a">>,
       <<"g", "e", "l">>,
       <<"j", "a", "r", "a", "b", "e">>,
       <<"s", "u", "p", "o", "s", "i", "t", "o", "r", "i", "o">>,
       <<"p", "a", "r", "c", "h", "e">> >>

FillerWords ==
    << <<"c", "a", "d", "a">>,
       <<"c", "o", "n", "t", "i", "e", "n", "e">>,
       <<"e", "n", "v", "a", "s", "e">>,
       <<"c", "o", "n">> >>

\* \b(clorhidrato|...|bromuro)\s+(de\s+)?
SaltMatch(t, i) ==
    LET w == AlternativeEnd(t, i, SaltWords, FALSE)
        s == RunEnd(Spaces, t, w)
        d == RunEnd(Spaces, t, s + 2)
    IN  IF ~BoundaryAt(t, i) \/ w = 0 \/ s = w THEN 0
        ELSE IF LiteralAt(t, s, <<"d", "e">>) /\ d > s + 2 THEN d
        ELSE s

\* \d+(\.\d+)?\s*(mg|g|ml|mcg|ug|ui|%|mEq)
ConcentrationMatch(t, i) ==
    LET d1 == RunEnd(Digits, t, i)
        d2 == IF d1 < Len(t) /\ t[d1] = "." /\ IsDigit(t[d1 + 1])
              THEN RunEnd(Digits, t, d1 + 1)
              ELSE d1
        u2 == AlternativeEnd(t, RunEnd(Spaces, t, d2), UnitWords, FALSE)
        u1 == AlternativeEnd(t, RunEnd(Spaces, t, d1), UnitWords, FALSE)
    IN  IF d1 = i THEN 0
        ELSE IF u2 # 0 THEN u2
        ELSE u1

\* \b(tableta|...|parche)\b
FormMatch(t, i) ==
    IF BoundaryAt(t, i) THEN AlternativeEnd(t, i, FormWords, TRUE) ELSE 0

\* \b(cada|contiene|envase|con)\b
FillerMatch(t, i) ==
    IF BoundaryAt(t, i) THEN AlternativeEnd(t, i, FillerWords, TRUE) ELSE 0

\* re.sub(pattern, '', t): every non-overlapping match, leftmost first, is
\* removed; match[i] is the index just after the match of the pattern that
\* starts at i, 0 if there is none
re_sub(match, t) ==
    LET G[i \in 1..(Len(t) + 1)] ==
            IF i > Len(t) THEN <<>>
            ELSE IF match[i] > i THEN G[match[i]] ELSE <<t[i]>> \o G[i + 1]
    IN  G[1]

\* variant of remove_salts: re.sub(..., count=1), the first match only
remove_salts_first_only(t) ==
    LET starts == {i \in DOMAIN t : SaltMatch(t, i) > i}
        first  == CHOOSE i \in starts : \A j \in starts : i <= j
    IN  IF starts = {} THEN t
        ELSE SubSeq(t, 1, first - 1) \o SubSeq(t, SaltMatch(t, first), Len(t))

\* texto = re.sub(r'\b(clorhidrato|...)\s+(de\s+)?', '', texto)
remove_salts(t) == re_sub([i \in DOMAIN t |-> SaltMatch(t, i)], t)

\* texto = re.sub(r'\d+(\.\d+)?\s*(mg|...)', '', texto)
remove_concentrations(t) == re_sub([i \in DOMAIN t |-> ConcentrationMatch(t, i)], t)

\* texto = re.sub(r'\b(tableta|...)\b', '', texto)
remove_forms(t) == re_sub([i \in DOMAIN t |-> FormMatch(t, i)], t)

\* texto = re.sub(r'\b(cada|contiene|envase|con)\b', '', texto)
remove_fillers(t) == re_sub([i \in DOMAIN t |-> FillerMatch(t, i)], t)

\* re.sub(r'[^\w\s]', '', t)
strip_special(t) == SelectSeq(t, LAMBDA c : IsWord(c) \/ IsSpace(c))

\* re.sub(r'\s+', ' ', t).strip()
collapse_spaces(t) ==
    LET G[i \in 1..(Len(t) + 1)] ==
            IF i > Len(t) THEN <<>>
            ELSE IF IsSpace(t[i])
                 THEN LET e == RunEnd(Spaces, t, i)
                      IN  IF i = 1 \/ e > Len(t) THEN G[e] ELSE <<" ">> \o G[e]
                 ELSE <<t[i]>> \o G[i + 1]
    IN  G[1]

\* IMSSOptimizationModule.normalize_active_ingredient
normalize_active_ingredient(descripcion, nombre_generico) ==
    LET texto_base == IF nombre_generico # <<>> THEN nombre_generico ELSE descripcion
    IN  upper(collapse_spaces(strip_special(
            remove_fillers(remove_forms(remove_concentrations(remove_salts(
                lower(texto_base))))))))

(***************************************************************************)
(* Bounds and input pools.                                                 *)
(***************************************************************************)
\* number of institution codes (clave) the catalog can hold
NumKeys == 2

\* latest value of datetime.now() at which a pass may write
MaxClock == 2

\* number of store errors injected into normalization passes
MaxFaults == 1

Keys == 1..NumKeys

\* what the catalog parser hands to _add_medication: (descripcion, nombre_generico)
RawPool ==
    << [descripcion |-> <<"A", "b", " ", "5", "m", "g">>, nombre_generico |-> <<>>],
       [descripcion |-> <<"z", "z">>, nombre_generico |-> <<"s", "u", "l", "f", "a", "t", "o", " ", "d", "e", " ", "a", "b">>],
       [descripcion |-> <<"g", "e", "l">>, nombre_generico |-> <<>>],
       [descripcion |-> <<"x">>, nombre_generico |-> <<"C", "b", " ", "g", "e", "l">>] >>

\* search terms handed to find_similar_medications
SearchTerms ==
    { <<"a", "b">>, <<"b">>, <<"a", "_">>, <<"g", "e", "l", " ", "5", "m", "g">>, <<>> }

\* the example catalog of the specification, by institution code
ExampleCatalog ==
    << [descripcion |-> <<"x">>, nombre_generico |-> <<"P", "a", "r", "a", "c", "e", "t", "a", "m", "o", "l", " ", "5", "0", "0", " ", "m", "g", " ", "T", "a", "b", "l", "e", "t", "a">>],
       [descripcion |-> <<"x">>, nombre_generico |-> <<"p", "a", "r", "a", "c", "e", "t", "a", "m", "o", "l", " ", "5", "0", "0", "m", "g", " ", "t", "a", "b", "l", "e", "t", "a">>],
       [descripcion |-> <<"x">>, nombre_generico |-> <<"I", "b", "u", "p", "r", "o", "f", "e", "n", "o", " ", "4", "0", "0", " ", "m", "g", " ", "C", "a'", "p", "s", "u", "l", "a">>],
       [descripcion |-> <<"C", "l", "o", "r", "h", "i", "d", "r", "a", "t", "o", " ", "d", "e", " ", "M", "e", "t", "f", "o", "r", "m", "i", "n", "a", " ", "8", "5", "0", " ", "m", "g", " ", "T", "a", "b", "l", "e", "t", "a">>, nombre_generico |-> <<>>] >>

ExampleTerm == <<"p", "a", "r", "a", "c", "e", "t", "a", "m", "o", "l">>

\* a description with a hyphen inside its concentration
HyphenRaw ==
    [descripcion |-> <<"a", "b", " ", "5", "-", "m", "g", " ", "c", "d">>, nombre_generico |-> <<>>]

AllRaw == Range(RawPool) \cup Range(ExampleCatalog) \cup {HyphenRaw}

\* the canonicalizer over the inputs of the model, tabulated once as pairs
CanonTable ==
    {<<r, normalize_active_ingredient(r.descripcion, r.nombre_generico)>> : r \in AllRaw}

Canon(descripcion, nombre_generico) ==
    (CHOOSE p \in CanonTable :
        p[1] = [descripcion |-> descripcion, nombre_generico |-> nombre_generico])[2]

\* find_similar_medications: search_normalized = normalize_active_ingredient("", search_term)
TermTable ==
    {<<t, normalize_active_ingredient(<<>>, t)>> :
        t \in SearchTerms \cup {ExampleTerm} \cup {p[2] : p \in CanonTable}}

SearchNormalized(search_term) == (CHOOSE p \in TermTable : p[1] = search_term)[2]

(***************************************************************************)
(* The store: one SQLite file.  medT/paT/metaT: the tables medicamentos,   *)
(* principios_activos and metadatos_sistema exist; col: medicamentos has   *)
(* the column principio_activo_normalizado; idx: names of the indexes;     *)
(* meds: clave -> row; groups: principio_activo_normalizado -> row (the    *)
(* column is UNIQUE); meta: clave -> row (the column is the primary key).  *)
(* The concatenated text columns of principios_activos and its rowid are   *)
(* not part of the model.                                                  *)
(***************************************************************************)
\* the SQL NULL of a text column (no text is this sequence)
NULL == <<"NULL">>

BasicIndexes == {"idx_clave_norm", "idx_descripcion", "idx_grupo"}

OptIndexes == {"idx_principio_activo", "idx_optimized_search", "idx_categoria_estado"}

NoRows == [k \in {} |-> {}]

NoFile ==
    [file |-> FALSE, medT |-> FALSE, col |-> FALSE, paT |-> FALSE, metaT |-> FALSE,
     idx |-> {}, meds |-> NoRows, groups |-> NoRows, meta |-> NoRows]

EmptyFile == [NoFile EXCEPT !.file = TRUE]

FlagKey == "normalizacion_completa"

\* SELECT valor FROM metadatos_sistema WHERE clave = 'normalizacion_completa' is 'true'
FlagTrue(s) == FlagKey \in DOMAIN s.meta /\ s.meta[FlagKey].valor = "true"

\* COUNT(*) FROM medicamentos WHERE principio_activo_normalizado != '' (NULL != '' is NULL)
NormalizedKeys(s) ==
    {k \in DOMAIN s.meds : s.meds[k].principio_activo_normalizado \notin {NULL, <<>>}}

\* the keys of the records whose canonical field equals the token
Members(s, token) ==
    {k \in DOMAIN s.meds : s.meds[k].principio_activo_normalizado = token}

\* the distinct non-empty, non-NULL canonical values of the records
TokensOf(s) ==
    {s.meds[k].principio_activo_normalizado : k \in NormalizedKeys(s)}

(***************************************************************************)
(* Statements of the normalization pass, as functions of the store.        *)
(***************************************************************************)
\* variant of UpdateRecords: UPDATE without its WHERE clause, so that every
\* record ends with the value computed for the row fetched last
UpdateRecordsNoWhere(s, keys) ==
    [s EXCEPT !.meds =
        [k \in DOMAIN s.meds |->
            IF keys # {}
            THEN [s.meds[k] EXCEPT !.principio_activo_normalizado =
                    LET last == CHOOSE m \in keys : \A n \in keys : n <= m
                    IN  Canon(s.meds[last].descripcion, s.meds[last].nombre_generico)]
            ELSE s.meds[k]]]

\* variant of UpdateRecords: the UPDATE also overwrites the generic name
\* with the canonical value
UpdateRecordsRewriting(s, keys) ==
    [s EXCEPT !.meds =
        [k \in DOMAIN s.meds |->
            IF k \in keys
            THEN [s.meds[k] EXCEPT
                    !.principio_activo_normalizado =
                        Canon(s.meds[k].descripcion, s.meds[k].nombre_generico),
                    !.nombre_generico =
                        Canon(s.meds[k].descripcion, s.meds[k].nombre_generico)]
            ELSE s.meds[k]]]

\* UPDATE medicamentos SET principio_activo_normalizado = ? WHERE clave = ?,
\* for the records of `keys`
UpdateRecords(s, keys) ==
    [s EXCEPT !.meds =
        [k \in DOMAIN s.meds |->
            IF k \in keys
            THEN [s.meds[k] EXCEPT !.principio_activo_normalizado =
                        Canon(s.meds[k].descripcion, s.meds[k].nombre_generico)]
            ELSE s.meds[k]]]

\* variant of DeleteGroups: the rows of the earlier pass are kept
DeleteGroupsKeep(s) == s

\* DELETE FROM principios_activos
DeleteGroups(s) == [s EXCEPT !.groups = NoRows]

\* variant of GroupSelect: COUNT(DISTINCT principio_activo_normalizado) for COUNT(*)
GroupSelectDistinct(s) == [t \in TokensOf(s) |-> 1]

\* SELECT principio_activo_normalizado, COUNT(*) ... WHERE principio_activo_normalizado
\* != '' AND principio_activo_normalizado IS NOT NULL GROUP BY principio_activo_normalizado
GroupSelect(s) == [t \in TokensOf(s) |-> Cardinality(Members(s, t))]

\* INSERT INTO principios_activos, for the tokens of `tokens`, none of which
\* is in the table (the column is UNIQUE: see RebuildGroups)
InsertGroups(s, counts, tokens, now) ==
    [s EXCEPT !.groups =
        [t \in (DOMAIN s.groups) \cup tokens |->
            IF t \in tokens
            THEN [total_medicamentos |-> counts[t], fecha_normalizacion |-> now]
            ELSE s.groups[t]]]

\* INSERT OR REPLACE INTO metadatos_sistema VALUES ('normalizacion_completa', 'true', now)
MarkComplete(s, now) ==
    [s EXCEPT !.meta =
        [c \in (DOMAIN s.meta) \cup {FlagKey} |->
            IF c = FlagKey THEN [valor |-> "true", fecha_actualizacion |-> now]
            ELSE s.meta[c]]]

\* the orders in which a query may return the rows of `S`
FetchOrders(S) ==
    {q \in [1..Cardinality(S) -> S] : \A i, j \in DOMAIN q : i # j => q[i] # q[j]}

\* one turn of the loop over `medicamentos` (the rows as fetched before the
\* loop): the UPDATE of the record `clave`
UpdateOne(s, medicamentos, clave) ==
    [s EXCEPT !.meds[clave].principio_activo_normalizado =
        Canon(medicamentos[clave].descripcion, medicamentos[clave].nombre_generico)]

\* the loop over the fetched rows, taken in the order `order`
RECURSIVE UpdateLoop(_, _, _)
UpdateLoop(s, medicamentos, order) ==
    IF order = <<>> THEN s
    ELSE UpdateLoop(UpdateOne(s, medicamentos, Head(order)), medicamentos, Tail(order))

\* the loop over grupos_principios (token -> COUNT(*)), taken in the order
\* `order`: one INSERT INTO principios_activos each turn
RECURSIVE InsertLoop(_, _, _, _)
InsertLoop(s, grupos_principios, order, now) ==
    IF order = <<>> THEN s
    ELSE InsertLoop(InsertGroups(s, grupos_principios, {Head(order)}, now),
                    grupos_principios, Tail(order), now)

(***************************************************************************)
(* A store error injected into a pass: `at` names the statement that       *)
(* fails ("none": no statement fails); for "update" and "insert", `done`   *)
(* is the set of records or tokens whose statement ran before the failing  *)
(* one (the cursor order is not specified by the query).                   *)
(***************************************************************************)
NoFault == [at |-> "none", done |-> {}]

Faults(s) ==
    {NoFault}
    \cup {[at |-> a, done |-> {}] : a \in {"flag", "select", "delete", "group", "mark"}}
    \cup {[at |-> "update", done |-> d] : d \in (SUBSET DOMAIN s.meds) \ {DOMAIN s.meds}}
    \cup {[at |-> "insert", done |-> d] :
            d \in (SUBSET TokensOf(UpdateRecords(s, DOMAIN s.meds)))
                    \ {TokensOf(UpdateRecords(s, DOMAIN s.meds))}}

\* outcome of a call: the store as the connection sees it afterwards, the
\* result ("error": the call raised), whether a statement that writes ran
\* (Python's sqlite3 opens a transaction before it) and whether now() was read
Outcome(s, estado, actualizados, principios, began, ticked) ==
    [store |-> s, estado |-> estado, medicamentos_actualizados |-> actualizados,
     principios_activos_encontrados |-> principios, began |-> began, ticked |-> ticked]

Raised(s, began, ticked) == Outcome(s, "error", 0, 0, began, ticked)

\* IMSSOptimizationModule._get_normalization_stats
get_normalization_stats(s) ==
    IF ~s.medT \/ ~s.col \/ ~s.paT
    THEN Raised(s, FALSE, FALSE)
    ELSE Outcome(s, "ya_completada", Cardinality(NormalizedKeys(s)),
                 Cardinality(DOMAIN s.groups), FALSE, FALSE)

\* variant of RebuildGroups: the completion flag is written before the
\* group rows
RebuildGroupsMarkFirst(s1, fault, now) ==
    LET began  == DOMAIN s1.meds # {}
        s2     == MarkComplete(DeleteGroups(s1), now)
        counts == GroupSelect(s2)
        s3     == InsertGroups(s2, counts, DOMAIN counts, now)
    IN  IF ~s1.paT THEN Raised(s1, began, FALSE)
        ELSE IF fault.at = "delete" THEN Raised(s1, TRUE, FALSE)
        ELSE IF ~s1.col THEN Raised(s2, TRUE, TRUE)
        ELSE IF fault.at = "group" THEN Raised(s2, TRUE, TRUE)
        ELSE IF fault.at = "insert"
             THEN Raised(InsertGroups(s2, counts, fault.done, now), TRUE, TRUE)
        ELSE IF fault.at = "mark" THEN Raised(s3, TRUE, TRUE)
        ELSE Outcome(s3, "completada", Cardinality(DOMAIN s1.meds),
                     Cardinality(DOMAIN counts), TRUE, TRUE)

\* the pass from step 2 on (the group table), the records being updated
RebuildGroups(s1, fault, now) ==
    LET began  == DOMAIN s1.meds # {}
        s2     == DeleteGroups(s1)
        counts == GroupSelect(s2)
        s3     == InsertGroups(s2, counts, DOMAIN counts, now)
    IN  IF ~s1.paT THEN Raised(s1, began, FALSE)
        ELSE IF fault.at = "delete" THEN Raised(s1, TRUE, FALSE)
        ELSE IF ~s1.col THEN Raised(s2, TRUE, FALSE)
        ELSE IF fault.at = "group" THEN Raised(s2, TRUE, FALSE)
        ELSE IF (DOMAIN s2.groups) \cap (DOMAIN counts) # {}
             THEN Raised(s2, TRUE, TRUE)     \* IntegrityError: UNIQUE constraint
        ELSE IF fault.at = "insert"
             THEN Raised(InsertGroups(s2, counts, fault.done, now), TRUE, TRUE)
        ELSE IF fault.at = "mark" THEN Raised(s3, TRUE, TRUE)
        ELSE Outcome(MarkComplete(s3, now), "completada", Cardinality(DOMAIN s1.meds),
                     Cardinality(DOMAIN counts), TRUE, TRUE)

\* variant of normalize_database: the group table is rebuilt before the
\* records are updated
normalize_database_groups_first(s, fault, now) ==
    IF ~s.metaT \/ fault.at = "flag" THEN Raised(s, FALSE, FALSE)
    ELSE IF FlagTrue(s) THEN get_normalization_stats(s)
    ELSE IF ~s.medT \/ fault.at = "select" THEN Raised(s, FALSE, FALSE)
    ELSE IF ~s.col /\ DOMAIN s.meds # {} THEN Raised(s, FALSE, FALSE)
    ELSE IF fault.at = "update" THEN Raised(UpdateRecords(s, fault.done), TRUE, FALSE)
    ELSE LET o == RebuildGroups(s, fault, now)
         IN  [o EXCEPT !.store = UpdateRecords(o.store, DOMAIN s.meds)]

\* variant of normalize_database: a pass that aborts in the record updates
\* writes the completion flag on its way out
normalize_database_flag_on_abort(s, fault, now) ==
    IF ~s.metaT \/ fault.at = "flag" THEN Raised(s, FALSE, FALSE)
    ELSE IF FlagTrue(s) THEN get_normalization_stats(s)
    ELSE IF ~s.medT \/ fault.at = "select" THEN Raised(s, FALSE, FALSE)
    ELSE IF ~s.col /\ DOMAIN s.meds # {} THEN Raised(s, FALSE, FALSE)
    ELSE IF fault.at = "update"
         THEN Raised(MarkComplete(UpdateRecords(s, fault.done), now), TRUE, TRUE)
    ELSE RebuildGroups(UpdateRecords(s, DOMAIN s.meds), fault, now)

\* variant of normalize_database: the completion flag is not consulted
normalize_database_unguarded(s, fault, now) ==
    IF ~s.metaT \/ fault.at = "flag" THEN Raised(s, FALSE, FALSE)
    ELSE IF ~s.medT \/ fault.at = "select" THEN Raised(s, FALSE, FALSE)
    ELSE IF ~s.col /\ DOMAIN s.meds # {} THEN Raised(s, FALSE, FALSE)
    ELSE IF fault.at = "update" THEN Raised(UpdateRecords(s, fault.done), TRUE, FALSE)
    ELSE RebuildGroups(UpdateRecords(s, DOMAIN s.meds), fault, now)

\* IMSSOptimizationModule.normalize_database, on the store the connection sees
normalize_database(s, fault, now) ==
    IF ~s.metaT \/ fault.at = "flag" THEN Raised(s, FALSE, FALSE)
    ELSE IF FlagTrue(s) THEN get_normalization_stats(s)
    ELSE IF ~s.medT \/ fault.at = "select" THEN Raised(s, FALSE, FALSE)
    ELSE IF ~s.col /\ DOMAIN s.meds # {} THEN Raised(s, FALSE, FALSE)
    ELSE IF fault.at = "update" THEN Raised(UpdateRecords(s, fault.done), TRUE, FALSE)
    ELSE RebuildGroups(UpdateRecords(s, DOMAIN s.meds), fault, now)

(***************************************************************************)
(* Schema manager, ingestion, search and health check, as functions of     *)
(* the store.                                                              *)
(***************************************************************************)
\* sqlite3.connect(path): the file is created when it does not exist
Connect(s) == [s EXCEPT !.file = TRUE]

\* IMSSModule._init_database: CREATE TABLE IF NOT EXISTS medicamentos (every
\* field of MedicamentoIMSS, principio_activo_normalizado among them) and
\* the basic indexes
init_database(s) ==
    [Connect(s) EXCEPT !.medT = TRUE,
                       !.col  = IF s.medT THEN s.col ELSE TRUE,
                       !.idx  = s.idx \cup BasicIndexes]

\* ALTER TABLE medicamentos ADD COLUMN principio_activo_normalizado TEXT, the
\* OperationalError (duplicate column, no such table) being swallowed
AddColumn(s) ==
    IF s.medT /\ ~s.col
    THEN [s EXCEPT !.col = TRUE,
                   !.meds = [k \in DOMAIN s.meds |->
                                [s.meds[k] EXCEPT !.principio_activo_normalizado = NULL]]]
    ELSE s

\* CREATE TABLE IF NOT EXISTS principios_activos / metadatos_sistema
CreateTables(s) == [s EXCEPT !.paT = TRUE, !.metaT = TRUE]

\* variant of setup_optimization_tables in which ALTER TABLE ... ADD COLUMN
\* on an existing column is not swallowed
setup_optimization_tables_duplicate_fatal(s) ==
    IF s.col \/ ~s.medT THEN [store |-> s, ok |-> FALSE]
    ELSE [store |-> [CreateTables(AddColumn(s)) EXCEPT !.idx = s.idx \cup OptIndexes],
          ok |-> TRUE]

\* IMSSOptimizationModule.setup_optimization_tables: the CREATE INDEX
\* statements raise when medicamentos does not exist
setup_optimization_tables(s) ==
    LET s2 == CreateTables(AddColumn(s))
    IN  IF ~s2.medT THEN [store |-> s2, ok |-> FALSE]
        ELSE [store |-> [s2 EXCEPT !.idx = s2.idx \cup OptIndexes], ok |-> TRUE]

\* IMSSModule._add_medication: INSERT OR REPLACE of the whole row; the
\* parser never sets principio_activo_normalizado, which keeps the default
\* "" of MedicamentoIMSS
add_medication(s, clave, raw) ==
    [s EXCEPT !.meds =
        [k \in (DOMAIN s.meds) \cup {clave} |->
            IF k = clave
            THEN [descripcion |-> raw.descripcion, nombre_generico |-> raw.nombre_generico,
                  principio_activo_normalizado |-> <<>>]
            ELSE s.meds[k]]]

\* the ASCII upper case of LIKE ... COLLATE NOCASE
ascii_upper(c) ==
    IF c \in Range(SubSeq(LowerLetters, 1, 26)) THEN upper_char(c) ELSE c

\* SQLite's text LIKE pattern: % is any run of characters, _ any one character
sqlite_like(pattern, text) ==
    LET L[i \in 1..(Len(pattern) + 1), j \in 1..(Len(text) + 1)] ==
            IF i > Len(pattern) THEN j > Len(text)
            ELSE IF pattern[i] = "%" THEN \E n \in j..(Len(text) + 1) : L[i + 1, n]
            ELSE IF j > Len(text) THEN FALSE
            ELSE IF pattern[i] = "_" THEN L[i + 1, j + 1]
            ELSE ascii_upper(pattern[i]) = ascii_upper(text[j]) /\ L[i + 1, j + 1]
    IN  L[1, 1]

\* variant of SimilarRows: an empty search_normalized matches no group
SimilarRowsGuarded(s, search_normalized) ==
    {[principio_activo |-> g, total_medicamentos |-> s.groups[g].total_medicamentos,
      claves |-> Members(s, g)] :
        g \in {t \in DOMAIN s.groups :
                /\ search_normalized # <<>>
                /\ Members(s, t) # {}
                /\ sqlite_like(<<"%">> \o search_normalized \o <<"%">>, t)}}

\* the rows of the query of find_similar_medications: principios_activos
\* JOIN medicamentos ON the token, WHERE the token LIKE %term%, GROUP BY token
SimilarRows(s, search_normalized) ==
    {[principio_activo |-> g, total_medicamentos |-> s.groups[g].total_medicamentos,
      claves |-> Members(s, g)] :
        g \in {t \in DOMAIN s.groups :
                /\ Members(s, t) # {}
                /\ sqlite_like(<<"%">> \o search_normalized \o <<"%">>, t)}}

\* ORDER BY pa.total_medicamentos DESC: the orders the query may return
Orderings(rows) ==
    {q \in [1..Cardinality(rows) -> rows] :
        /\ \A i, j \in DOMAIN q : i # j => q[i] # q[j]
        /\ \A i, j \in DOMAIN q :
                i < j => q[i].total_medicamentos >= q[j].total_medicamentos}

\* n / t * 100 > bound, as the floating-point comparison evaluates it (for
\* the bounds 50 and 90 and t < 3000 it agrees with the exact comparison)
PercentAbove(n, t, bound) == IF t > 0 THEN n * 100 > bound * t ELSE 0 > bound

\* round(n / t * 100, 1) in tenths of a percent (the exact quotient rounded
\* half to even, which is what Python returns for t < 80 and for the
\* catalog sizes of SuggestTotals)
PercentTenths(n, t) ==
    IF t = 0 THEN 0
    ELSE LET f == (n * 1000) \div t
             r == (n * 1000) % t
         IN  IF 2 * r > t \/ (2 * r = t /\ f % 2 = 1) THEN f + 1 ELSE f

\* variant of StatusOf: ready from 90 percent on
StatusOfInclusive(normalized_count, total) ==
    IF total > 0 /\ normalized_count * 100 >= 90 * total
    THEN "ready" ELSE "needs_optimization"

\* variant of StatusOf: an empty catalog counts as fully normalized
StatusOfEmptyReady(normalized_count, total) ==
    IF total = 0 \/ PercentAbove(normalized_count, total, 90)
    THEN "ready" ELSE "needs_optimization"

\* 'ready' if normalization_percent > 90 else 'needs_optimization'
StatusOf(normalized_count, total) ==
    IF PercentAbove(normalized_count, total, 90) THEN "ready" ELSE "needs_optimization"

\* variant of ReadyForUse: the table of groups is not looked at
ReadyForUseAnyTable(normalized_count, total, paT) ==
    PercentAbove(normalized_count, total, 50)

\* normalization_percent > 50 and has_optimization_table
ReadyForUse(normalized_count, total, paT) ==
    PercentAbove(normalized_count, total, 50) /\ paT

\* IMSSQuickChecker.quick_status on a store summarized by its counts;
\* queryFails: a query raises for a reason other than a missing table
QuickStatus(file, medT, col, paT, total, normalized, grouped, queryFails) ==
    IF ~file THEN [op |-> "quick_status", status |-> "no_database", conn_closed |-> TRUE]
    ELSE IF ~medT \/ queryFails
    THEN [op |-> "quick_status", status |-> "error", conn_closed |-> TRUE]
    ELSE LET normalized_count == IF col THEN normalized ELSE 0
         IN  [op |-> "quick_status", conn_closed |-> TRUE,
              status |-> StatusOf(normalized_count, total),
              total_medications |-> total,
              normalized_medications |-> normalized_count,
              normalization_percentage |-> PercentTenths(normalized_count, total),
              unique_ingredients |-> IF paT THEN grouped ELSE 0,
              optimization_table_exists |-> paT,
              ready_for_use |-> ReadyForUse(normalized_count, total, paT)]

quick_status(s, queryFails) ==
    QuickStatus(s.file, s.medT, s.col, s.paT, Cardinality(DOMAIN s.meds),
                Cardinality(NormalizedKeys(s)), Cardinality(DOMAIN s.groups), queryFails)

(***************************************************************************)
(* The inspector and the search comparison, as functions of the store.     *)
(***************************************************************************)
\* the index names that match LIKE '%principio_activo%'
IngredientIndexes == {"idx_principio_activo"}

\* IMSSDatabaseInspector.check_normalization_status (no query of it fails on
\* a store that lacks a table: pragma_table_info of a missing table is empty)
check_normalization_status(s) ==
    [normalization_tables_exist |-> s.paT /\ s.metaT,
     normalization_completed |-> s.metaT /\ FlagTrue(s),
     normalization_date |->
        IF s.metaT /\ FlagKey \in DOMAIN s.meta
        THEN <<s.meta[FlagKey].fecha_actualizacion>> ELSE <<>>,
     medicamentos_normalized |-> IF s.col THEN Cardinality(NormalizedKeys(s)) ELSE 0,
     medicamentos_without_normalization |->
        IF s.col THEN Cardinality((DOMAIN s.meds) \ NormalizedKeys(s)) ELSE 0,
     active_ingredients_found |-> IF s.paT THEN Cardinality(DOMAIN s.groups) ELSE 0,
     optimization_indexes_exist |-> s.idx \cap IngredientIndexes # {}]

\* variant of PercentHundredths: the quotient cut off after two decimals
PercentHundredthsTruncated(n, t) == (n * 10000) \div t

\* round(n / t * 100, 2) in hundredths of a percent (the exact quotient
\* rounded half to even; no quotient is a tie for t < 32)
PercentHundredths(n, t) ==
    LET f == (n * 10000) \div t
        r == (n * 10000) % t
    IN  IF 2 * r > t \/ (2 * r = t /\ f % 2 = 1) THEN f + 1 ELSE f

\* analysis['normalization_quality'] of analyze_active_ingredients: the
\* dictionary stays empty without the column and for an empty catalog
NormalizationQuality(has_normalized, total, unnormalized) ==
    IF has_normalized /\ total > 0
    THEN [total_medications |-> total,
          normalized_medications |-> total - unnormalized,
          unnormalized_medications |-> unnormalized,
          normalization_percentage |-> PercentHundredths(total - unnormalized, total)]
    ELSE NoRows

\* the quality analysis of a store: the counts are those of the records
\* whose canonical value is NULL or '' and of all records
normalization_quality(s) ==
    NormalizationQuality(s.col, Cardinality(DOMAIN s.meds),
                         Cardinality((DOMAIN s.meds) \ NormalizedKeys(s)))

\* a variant of the rules that never asks for the normalization tables
recommendations_without_tables_rule(norm_status) ==
    (IF ~norm_status.normalization_completed
     THEN << <<"Ejecutar proceso de normalizacion completa">> >> ELSE <<>>)
    \o (IF norm_status.medicamentos_without_normalization > 0
        THEN << <<"Normalizar", norm_status.medicamentos_without_normalization,
                  "medicamentos restantes">> >>
        ELSE <<>>)
    \o (IF ~norm_status.optimization_indexes_exist
        THEN << <<"Crear indices de optimizacion para busquedas rapidas">> >> ELSE <<>>)
    \o (IF norm_status.active_ingredients_found = 0
        THEN << <<"Generar tabla de principios activos agrupados">> >> ELSE <<>>)

\* the recommendations of get_inspection_report, in the order of the rules
recommendations(norm_status) ==
    (IF ~norm_status.normalization_tables_exist
     THEN << <<"Ejecutar modulo de optimizacion para crear tablas de normalizacion">> >>
     ELSE <<>>)
    \o (IF ~norm_status.normalization_completed
        THEN << <<"Ejecutar proceso de normalizacion completa">> >> ELSE <<>>)
    \o (IF norm_status.medicamentos_without_normalization > 0
        THEN << <<"Normalizar", norm_status.medicamentos_without_normalization,
                  "medicamentos restantes">> >>
        ELSE <<>>)
    \o (IF ~norm_status.optimization_indexes_exist
        THEN << <<"Crear indices de optimizacion para busquedas rapidas">> >> ELSE <<>>)
    \o (IF norm_status.active_ingredients_found = 0
        THEN << <<"Generar tabla de principios activos agrupados">> >> ELSE <<>>)

\* the report built from a normalization status and a quality analysis
InspectionReport(norm_status, quality, tables, indexes) ==
    [op |-> "get_inspection_report", estado |-> "ok", conn_closed |-> TRUE,
     structure |-> [tables |-> tables, indexes |-> indexes],
     normalization_status |-> norm_status,
     normalization_quality |-> quality,
     recommendations |-> recommendations(norm_status)]

\* the tables of the store with their row counts
TableCounts(s) ==
    [t \in (IF s.medT THEN {"medicamentos"} ELSE {})
           \cup (IF s.paT THEN {"principios_activos"} ELSE {})
           \cup (IF s.metaT THEN {"metadatos_sistema"} ELSE {}) |->
        IF t = "medicamentos" THEN Cardinality(DOMAIN s.meds)
        ELSE IF t = "principios_activos" THEN Cardinality(DOMAIN s.groups)
        ELSE Cardinality(DOMAIN s.meta)]

\* inspect_database(db_path): IMSSDatabaseInspector(db_path) raises
\* FileNotFoundError when the file does not exist
get_inspection_report(s) ==
    IF ~s.file
    THEN [op |-> "get_inspection_report", estado |-> "error", conn_closed |-> TRUE]
    ELSE InspectionReport(check_normalization_status(s), normalization_quality(s),
                          TableCounts(s), s.idx)

\* IMSSQuickChecker.test_search_performance: the counts of the search over
\* the descriptions and of the search over the group tokens
test_search_performance(s, test_term) ==
    IF ~s.file
    THEN [op |-> "test_search_performance", error |-> "No database", conn_closed |-> TRUE]
    ELSE IF ~s.medT
    THEN [op |-> "test_search_performance", error |-> "no such table",
          conn_closed |-> TRUE]
    ELSE [op |-> "test_search_performance", conn_closed |-> TRUE,
          test_term |-> test_term,
          traditional_count |->
            Cardinality({k \in DOMAIN s.meds :
                sqlite_like(<<"%">> \o test_term \o <<"%">>, s.meds[k].descripcion)}),
          optimized_count |->
            IF s.paT
            THEN Cardinality({g \in DOMAIN s.groups :
                    sqlite_like(<<"%">> \o upper(test_term) \o <<"%">>, g)})
            ELSE 0,
          optimized_available |-> s.paT]

(***************************************************************************)
(* State.                                                                  *)
(*   disk    the committed contents of the store file                      *)
(*   txn     <<>>, or <<s>> when the optimizer's shared connection has an  *)
(*           open transaction and sees the store as s                      *)
(*   shared  the optimizer was constructed with a connection (TRUE) or     *)
(*           with a path, opening a connection per call (FALSE)            *)
(*   ret     what the last call returned ("error": it raised; `at` is the  *)
(*           statement of the pass that raised, "schema" when a table or   *)
(*           the column is missing)                                        *)
(*   faults  the number of store errors injected so far                    *)
(*   probe   the store summary handed to the health check in SpecQuick     *)
(*   pass    the position of a normalization pass that runs statement by   *)
(*           statement (SpecPass), with the rows it fetched                *)
(*   reader  the position of an inspection that runs query by query        *)
(*           (SpecPass), with what it has read so far                      *)
(*   race    <<>>, or for each of two writers the position of its          *)
(*           normalization pass (SpecRace), each on a connection of its    *)
(*           own; txn is then the transaction of the writer that holds     *)
(*           the write lock of the store file                              *)
(***************************************************************************)
VARIABLES disk, txn, shared, ret, faults, probe, pass, reader, race

vars == <<disk, txn, shared, ret, faults, probe, pass, reader, race>>

\* the store as the optimizer's connection sees it
View == IF txn = <<>> THEN disk ELSE txn[1]

\* the timestamps a store holds
Timestamps(s) ==
    {s.groups[t].fecha_normalizacion : t \in DOMAIN s.groups}
        \cup {s.meta[c].fecha_actualizacion : c \in DOMAIN s.meta}

\* datetime.now(): later than every timestamp written so far
Now ==
    LET seen == Timestamps(disk) \cup Timestamps(View) \cup {0}
    IN  1 + (CHOOSE m \in seen : \A n \in seen : n <= m)

NoProbe == [file |-> FALSE]

\* no call in progress
Idle == [pc |-> "idle"]

\* no second writer: the passes that race for the store
NoRace == <<>>

Init ==
    /\ shared \in BOOLEAN
    /\ disk = IF shared THEN EmptyFile ELSE NoFile
    /\ txn = <<>>
    /\ ret = [op |-> "none"]
    /\ faults = 0
    /\ probe = NoProbe
    /\ pass = Idle
    /\ reader = Idle
    /\ race = NoRace

\* IMSSModule._init_database, on a connection of its own: the statements
\* that have something to create need the write lock
InitDatabase ==
    LET locked == txn # <<>> /\ init_database(disk) # disk
    IN  /\ disk' = IF locked THEN disk ELSE init_database(disk)
        /\ ret' = [op |-> "init_database", ok |-> ~locked, conn_closed |-> ~locked]
        /\ UNCHANGED <<txn, shared, faults, probe, pass, reader, race>>

\* IMSSOptimizationModule.setup_optimization_tables: the DDL statements run
\* in the open transaction if there is one and are committed as they run
\* otherwise; conn.commit() ends the call
EnsureSchema ==
    LET o == setup_optimization_tables(IF shared THEN View ELSE Connect(disk))
    IN  /\ IF o.ok \/ txn = <<>>
           THEN disk' = o.store /\ txn' = <<>>
           ELSE disk' = disk /\ txn' = <<o.store>>
        /\ ret' = [op |-> "setup_optimization_tables", ok |-> o.ok,
                   conn_closed |-> shared \/ o.ok]
        /\ UNCHANGED <<shared, faults, probe, pass, reader, race>>

\* IMSSModule._add_medication, on a connection of its own: False when the
\* statement fails (no table, a different number of columns, database locked
\* by the open transaction of the shared connection)
Upsert(clave, raw) ==
    LET s  == Connect(disk)
        ok == s.medT /\ s.col /\ txn = <<>>
    IN  /\ disk' = IF ok THEN add_medication(s, clave, raw) ELSE s
        /\ ret' = [op |-> "add_medication", ok |-> ok, conn_closed |-> ok]
        /\ UNCHANGED <<txn, shared, faults, probe, pass, reader, race>>

\* IMSSOptimizationModule.normalize_database, called on the store `s` with
\* the outcome `o`.  With a path, a call that
\* raises drops its connection and with it the uncommitted statements; with
\* a shared connection they stay in its open transaction.
NormalizeReturns(fault, s, o) ==
    LET injected == fault.at # "none"
    IN  /\ o.ticked => Now <= MaxClock
        /\ injected =>
                /\ faults < MaxFaults
                /\ o.estado = "error"
                /\ normalize_database(s, NoFault, Now).estado # "error"
        /\ faults' = IF injected THEN faults + 1 ELSE faults
        /\ IF o.estado = "completada"
           THEN disk' = o.store /\ txn' = <<>>
           ELSE IF shared /\ (o.began \/ txn # <<>>)
           THEN disk' = disk /\ txn' = <<o.store>>
           ELSE disk' = s /\ txn' = txn
        /\ ret' = IF o.estado = "error"
                  THEN [op |-> "normalize_database", estado |-> "error",
                        at |-> IF injected THEN fault.at ELSE "schema",
                        conn_closed |-> shared]
                  ELSE [op |-> "normalize_database", estado |-> o.estado,
                        conn_closed |-> TRUE,
                        medicamentos_actualizados |-> o.medicamentos_actualizados,
                        principios_activos_encontrados |-> o.principios_activos_encontrados]
        /\ UNCHANGED <<shared, probe, pass, reader, race>>

Normalize(fault) ==
    NormalizeReturns(fault, IF shared THEN View ELSE Connect(disk),
                     normalize_database(IF shared THEN View ELSE Connect(disk), fault, Now))

\* IMSSOptimizationModule.find_similar_medications: the query raises when a
\* table or the column is missing
FindSimilar(term) ==
    LET s == IF shared THEN View ELSE Connect(disk)
    IN  /\ IF ~s.paT \/ ~s.medT \/ ~s.col
           THEN ret' = [op |-> "find_similar_medications", estado |-> "error",
                        conn_closed |-> shared]
           ELSE \E q \in Orderings(SimilarRows(s, SearchNormalized(term))) :
                    ret' = [op |-> "find_similar_medications", estado |-> "ok",
                            conn_closed |-> TRUE,
                            search_term |-> term, resultados |-> q]
        /\ disk' = IF shared THEN disk ELSE s
        /\ UNCHANGED <<txn, shared, faults, probe, pass, reader, race>>

\* IMSSQuickChecker(db_path).quick_status(), on a connection of its own
QuickCheck(queryFails) ==
    /\ ret' = quick_status(disk, queryFails)
    /\ UNCHANGED <<disk, txn, shared, faults, probe, pass, reader, race>>

\* variant of Inspect: an inspection that creates the tables it finds missing
InspectCreatesTables ==
    /\ ret' = get_inspection_report(disk)
    /\ disk' = IF disk.file THEN CreateTables(disk) ELSE disk
    /\ UNCHANGED <<txn, shared, faults, probe, pass, reader, race>>

\* inspect_database(db_path), on a connection of its own
Inspect ==
    /\ ret' = get_inspection_report(disk)
    /\ UNCHANGED <<disk, txn, shared, faults, probe, pass, reader, race>>

\* IMSSQuickChecker(db_path).test_search_performance(term), on a connection
\* of its own
ComparePerformance(term) ==
    /\ ret' = test_search_performance(disk, term)
    /\ UNCHANGED <<disk, txn, shared, faults, probe, pass, reader, race>>

Next ==
    \/ InitDatabase
    \/ EnsureSchema
    \/ \E k \in Keys, i \in DOMAIN RawPool : Upsert(k, RawPool[i])
    \/ \E f \in Faults(View) : Normalize(f)

Spec == Init /\ [][Next]_vars

(***************************************************************************)
(* The writers together with the search accelerator.                       *)
(***************************************************************************)
NextSearch ==
    \/ InitDatabase
    \/ EnsureSchema
    \/ \E k \in Keys, i \in DOMAIN RawPool : Upsert(k, RawPool[i])
    \/ Normalize(NoFault)
    \/ \E t \in SearchTerms : FindSimilar(t)

SpecSearch == Init /\ [][NextSearch]_vars

(***************************************************************************)
(* The writers together with every reader.                                 *)
(***************************************************************************)
NextReaders ==
    \/ InitDatabase
    \/ EnsureSchema
    \/ \E k \in Keys, i \in DOMAIN RawPool : Upsert(k, RawPool[i])
    \/ Normalize(NoFault)
    \/ \E t \in SearchTerms : FindSimilar(t)
    \/ \E t \in SearchTerms : ComparePerformance(t)
    \/ QuickCheck(FALSE)
    \/ Inspect

SpecReaders == Init /\ [][NextReaders]_vars

(***************************************************************************)
(* The example catalog of the specification: the same operations, the      *)
(* records and the search term being those of the example.                 *)
(***************************************************************************)
NextEx ==
    \/ InitDatabase
    \/ EnsureSchema
    \/ \E k \in DOMAIN ExampleCatalog : Upsert(k, ExampleCatalog[k])
    \/ Normalize(NoFault)
    \/ FindSimilar(ExampleTerm)
    \/ QuickCheck(FALSE)

SpecEx == Init /\ [][NextEx]_vars

(***************************************************************************)
(* The health check as a function of the counts it reads: the summary of   *)
(* a store is drawn from every combination a store file can show.          *)
(***************************************************************************)
\* largest catalog of a summary
MaxTotal == 20

Summaries ==
    {p \in [file : BOOLEAN, medT : BOOLEAN, col : BOOLEAN, paT : BOOLEAN,
            total : 0..MaxTotal, normalized : 0..MaxTotal, grouped : 0..NumKeys,
            queryFails : BOOLEAN] :
        /\ p.medT => p.file
        /\ p.paT => p.file
        /\ p.col => p.medT
        /\ p.queryFails => p.file
        /\ ~p.medT => p.total = 0
        /\ p.normalized <= p.total
        /\ ~p.col => p.normalized = 0
        /\ p.grouped <= p.total
        /\ ~p.paT => p.grouped = 0}

InitQuick ==
    /\ shared = FALSE
    /\ disk = NoFile
    /\ txn = <<>>
    /\ ret = [op |-> "none"]
    /\ faults = 0
    /\ probe \in Summaries
    /\ pass = Idle
    /\ reader = Idle
    /\ race = NoRace

QuickProbe ==
    /\ ret' = QuickStatus(probe.file, probe.medT, probe.col, probe.paT, probe.total,
                          probe.normalized, probe.grouped, probe.queryFails)
    /\ UNCHANGED <<disk, txn, shared, faults, probe, pass, reader, race>>

NextQuick == QuickProbe

SpecQuick == InitQuick /\ [][NextQuick]_vars

(***************************************************************************)
(* The schema operations from every store file they can be pointed at: a   *)
(* catalog table of an earlier version without the canonical column, a     *)
(* file without the catalog table, any part of the derived schema.         *)
(***************************************************************************)
\* a record written before the canonical column existed
LegacyRow(raw) ==
    [descripcion |-> raw.descripcion, nombre_generico |-> raw.nombre_generico,
     principio_activo_normalizado |-> NULL]

SchemaStores ==
    {[file |-> TRUE, medT |-> b.medT, col |-> b.col, paT |-> b.paT, metaT |-> b.metaT,
      idx |-> i,
      meds |-> [k \in K |-> IF b.col THEN add_medication(EmptyFile, k, RawPool[1]).meds[k]
                            ELSE LegacyRow(RawPool[1])],
      groups |-> NoRows, meta |-> NoRows] :
        b \in {c \in [medT : BOOLEAN, col : BOOLEAN, paT : BOOLEAN, metaT : BOOLEAN] :
                    c.col => c.medT},
        i \in {j \in SUBSET (BasicIndexes \cup OptIndexes) :
                    \/ j = {}
                    \/ j = BasicIndexes
                    \/ j = BasicIndexes \cup OptIndexes},
        K \in SUBSET Keys}

InitSchema ==
    /\ shared \in BOOLEAN
    /\ disk \in {s \in SchemaStores :
                    /\ ~s.medT => s.idx = {} /\ DOMAIN s.meds = {}
                    /\ ~s.col => s.idx \cap OptIndexes = {}}
    /\ txn = <<>>
    /\ ret = [op |-> "none"]
    /\ faults = 0
    /\ probe = NoProbe
    /\ pass = Idle
    /\ reader = Idle
    /\ race = NoRace

NextSchema ==
    \/ InitDatabase
    \/ EnsureSchema
    \/ \E k \in Keys, i \in DOMAIN RawPool : Upsert(k, RawPool[i])

SpecSchema == InitSchema /\ [][NextSchema]_vars

(***************************************************************************)
(* The quality analysis of the inspector as a function of the counts it    *)
(* reads, over the same summaries.                                         *)
(***************************************************************************)
\* IMSSDatabaseInspector(db_path).analyze_active_ingredients() on a store
\* summarized by its counts; the constructor raises without a file
AnalysisProbe ==
    /\ ret' = IF ~probe.file
              THEN [op |-> "analyze_active_ingredients", estado |-> "error",
                    conn_closed |-> TRUE]
              ELSE [op |-> "analyze_active_ingredients", estado |-> "ok",
                    conn_closed |-> TRUE,
                    total_unique_ingredients |-> IF probe.paT THEN probe.grouped ELSE 0,
                    normalization_quality |->
                        NormalizationQuality(probe.col, probe.total,
                                             probe.total - probe.normalized)]
    /\ UNCHANGED <<disk, txn, shared, faults, probe, pass, reader, race>>

NextReport == AnalysisProbe

SpecReport == InitQuick /\ [][NextReport]_vars

(***************************************************************************)
(* A normalization pass statement by statement, on a connection of its     *)
(* own, with an inspection running query by query on other connections.    *)
(* The statements of the pass are in one transaction (the implicit BEGIN   *)
(* of the first UPDATE or DELETE): the other connections read the          *)
(* committed store.  A shared connection is bound to its thread, so no     *)
(* reader runs between the statements of a pass on it.                     *)
(***************************************************************************)
\* the store after _init_database and setup_optimization_tables
ReadyStore == setup_optimization_tables(init_database(EmptyFile)).store

\* the stores after the ingestion of a catalog
PassStores ==
    {[ReadyStore EXCEPT !.meds =
        [k \in DOMAIN c |-> add_medication(EmptyFile, k, RawPool[c[k]]).meds[k]]] :
        c \in UNION {[K -> DOMAIN RawPool] : K \in SUBSET Keys}}

InitPass ==
    /\ shared = FALSE
    /\ disk \in PassStores
    /\ txn = <<>>
    /\ ret = [op |-> "none"]
    /\ faults = 0
    /\ probe = NoProbe
    /\ pass = Idle
    /\ reader = Idle
    /\ race = NoRace

\* normalize_database up to cursor.fetchall() of the records: with the flag
\* 'true' the call returns at once
PassBegin ==
    /\ pass.pc = "idle"
    /\ IF FlagTrue(disk) THEN Normalize(NoFault)
       ELSE /\ pass' = [pc |-> "update", medicamentos |-> disk.meds,
                        todo |-> DOMAIN disk.meds]
            /\ UNCHANGED <<disk, txn, shared, ret, faults, probe, reader, race>>

\* one turn of the update loop, for the fetched row `clave`
PassUpdate(clave) ==
    /\ pass.pc = "update" /\ clave \in pass.todo
    /\ txn' = <<UpdateOne(View, pass.medicamentos, clave)>>
    /\ pass' = [pass EXCEPT !.todo = pass.todo \ {clave}]
    /\ UNCHANGED <<disk, shared, ret, faults, probe, reader, race>>

\* DELETE FROM principios_activos, after the last turn of the update loop
PassDelete ==
    /\ pass.pc = "update" /\ pass.todo = {}
    /\ txn' = <<DeleteGroups(View)>>
    /\ pass' = [pc |-> "group", medicamentos |-> pass.medicamentos]
    /\ UNCHANGED <<disk, shared, ret, faults, probe, reader, race>>

\* the SELECT ... GROUP BY and its fetchall()
PassSelectGroups ==
    /\ pass.pc = "group"
    /\ Now <= MaxClock
    /\ pass' = [pc |-> "insert", medicamentos |-> pass.medicamentos,
                grupos_principios |-> GroupSelect(View),
                todo |-> DOMAIN GroupSelect(View), now |-> Now]
    /\ UNCHANGED <<disk, txn, shared, ret, faults, probe, reader, race>>

\* one turn of the insert loop, for the group `principio`
PassInsert(principio) ==
    /\ pass.pc = "insert" /\ principio \in pass.todo
    /\ txn' = <<InsertGroups(View, pass.grupos_principios, {principio}, pass.now)>>
    /\ pass' = [pass EXCEPT !.todo = pass.todo \ {principio}]
    /\ UNCHANGED <<disk, shared, ret, faults, probe, reader, race>>

\* variant of PassMark: the flag is written before the group table is rebuilt
PassMarkBeforeGroups ==
    /\ pass.pc = "update" /\ pass.todo = {} /\ ~FlagTrue(View)
    /\ txn' = <<MarkComplete(View, Now)>>
    /\ UNCHANGED <<disk, shared, ret, faults, probe, pass, reader, race>>

\* INSERT OR REPLACE of the completion flag, after the last turn of the
\* insert loop
PassMark ==
    /\ pass.pc = "insert" /\ pass.todo = {}
    /\ txn' = <<MarkComplete(View, pass.now)>>
    /\ pass' = [pass EXCEPT !.pc = "commit"]
    /\ UNCHANGED <<disk, shared, ret, faults, probe, reader, race>>

\* conn.commit(), conn.close() and the return of the statistics
PassCommit ==
    /\ pass.pc = "commit"
    /\ disk' = View
    /\ txn' = <<>>
    /\ ret' = [op |-> "normalize_database", estado |-> "completada",
               conn_closed |-> TRUE,
               medicamentos_actualizados |-> Cardinality(DOMAIN pass.medicamentos),
               principios_activos_encontrados |-> Cardinality(DOMAIN pass.grupos_principios)]
    /\ pass' = Idle
    /\ UNCHANGED <<shared, faults, probe, reader, race>>

\* a statement of the pass raises: the call ends, its connection is dropped
\* and the transaction with it
PassRaises ==
    /\ pass.pc # "idle"
    /\ faults < MaxFaults
    /\ faults' = faults + 1
    /\ txn' = <<>>
    /\ ret' = [op |-> "normalize_database", estado |-> "error", at |-> pass.pc,
               conn_closed |-> FALSE]
    /\ pass' = Idle
    /\ UNCHANGED <<disk, shared, probe, reader, race>>

\* inspect_database: get_database_structure
ReadStructure ==
    /\ reader.pc = "idle"
    /\ reader' = [pc |-> "flag", tables |-> TableCounts(disk), indexes |-> disk.idx]
    /\ UNCHANGED <<disk, txn, shared, ret, faults, probe, pass, race>>

\* check_normalization_status up to the SELECT of the completion flag
ReadFlag ==
    /\ reader.pc = "flag"
    /\ reader' = [pc |-> "counts", tables |-> reader.tables, indexes |-> reader.indexes,
                  normalization_tables_exist |-> disk.paT /\ disk.metaT,
                  normalization_completed |-> disk.metaT /\ FlagTrue(disk),
                  normalization_date |->
                    check_normalization_status(disk).normalization_date]
    /\ UNCHANGED <<disk, txn, shared, ret, faults, probe, pass, race>>

\* check_normalization_status from the counts of the records on
ReadCounts ==
    /\ reader.pc = "counts"
    /\ reader' = [pc |-> "analysis", tables |-> reader.tables, indexes |-> reader.indexes,
                  norm_status |->
                    [check_normalization_status(disk) EXCEPT
                        !.normalization_tables_exist = reader.normalization_tables_exist,
                        !.normalization_completed = reader.normalization_completed,
                        !.normalization_date = reader.normalization_date]]
    /\ UNCHANGED <<disk, txn, shared, ret, faults, probe, pass, race>>

\* analyze_active_ingredients and the return of the report
ReadAnalysis ==
    /\ reader.pc = "analysis"
    /\ ret' = InspectionReport(reader.norm_status, normalization_quality(disk),
                               reader.tables, reader.indexes)
    /\ reader' = Idle
    /\ UNCHANGED <<disk, txn, shared, faults, probe, pass, race>>

NextPass ==
    \/ PassBegin
    \/ \E k \in Keys : PassUpdate(k)
    \/ PassDelete
    \/ PassSelectGroups
    \/ \E t \in DOMAIN GroupSelect(View) : PassInsert(t)
    \/ PassMark
    \/ PassCommit
    \/ PassRaises
    \/ ReadStructure
    \/ ReadFlag
    \/ ReadCounts
    \/ ReadAnalysis
    \/ QuickCheck(FALSE)

SpecPass == InitPass /\ [][NextPass]_vars

(***************************************************************************)
(* The canonicalizer on its own, over texts of a few words, handed over as *)
(* the generic name or as the description.                                 *)
(***************************************************************************)
\* most words of a text
MaxWords == 3

\* a salt with a capital, a salt, the connective, a name, a name with an
\* underscore, a concentration, a form
Vocabulary ==
    << <<"S", "u", "l", "f", "a", "t", "o">>,
       <<"c", "i", "t", "r", "a", "t", "o">>,
       <<"d", "e">>,
       <<"a", "b">>,
       <<"a", "_", "b">>,
       <<"5", "m", "g">>,
       <<"g", "e", "l">> >>

\* the texts of the model, as the sequence of their words
WordLists == UNION {[1..n -> DOMAIN Vocabulary] : n \in 0..MaxWords}

\* the words separated by one space
RECURSIVE JoinWords(_)
JoinWords(words) ==
    IF words = <<>> THEN <<>>
    ELSE IF Len(words) = 1 THEN Vocabulary[words[1]]
    ELSE Vocabulary[words[1]] \o <<" ">> \o JoinWords(Tail(words))

InitCanon ==
    /\ shared = FALSE
    /\ disk = NoFile
    /\ txn = <<>>
    /\ ret = [op |-> "none"]
    /\ faults = 0
    /\ probe \in [words : WordLists, generic : BOOLEAN]
    /\ pass = Idle
    /\ reader = Idle
    /\ race = NoRace

\* IMSSOptimizationModule.normalize_active_ingredient(descripcion, nombre_generico)
CanonProbe ==
    /\ ret' = [op |-> "normalize_active_ingredient",
               token |-> IF probe.generic
                         THEN normalize_active_ingredient(<<"x">>, JoinWords(probe.words))
                         ELSE normalize_active_ingredient(JoinWords(probe.words), <<>>)]
    /\ UNCHANGED <<disk, txn, shared, faults, probe, pass, reader, race>>

NextCanon == CanonProbe

SpecCanon == InitCanon /\ [][NextCanon]_vars

(***************************************************************************)
(* Searching for the tokens a pass has stored.                             *)
(***************************************************************************)
OwnPool == Append(RawPool, HyphenRaw)

\* the stores after the ingestion of a catalog drawn from OwnPool
OwnStores ==
    {[ReadyStore EXCEPT !.meds =
        [k \in DOMAIN c |-> add_medication(EmptyFile, k, OwnPool[c[k]]).meds[k]]] :
        c \in UNION {[K -> DOMAIN OwnPool] : K \in SUBSET Keys}}

InitOwn ==
    /\ shared = FALSE
    /\ disk \in OwnStores
    /\ txn = <<>>
    /\ ret = [op |-> "none"]
    /\ faults = 0
    /\ probe = NoProbe
    /\ pass = Idle
    /\ reader = Idle
    /\ race = NoRace

\* find_similar_medications(t) for a token t of principios_activos
FindOwnGroup == \E t \in DOMAIN disk.groups : FindSimilar(t)

NextOwn ==
    \/ Normalize(NoFault)
    \/ FindOwnGroup
    \/ \E t \in SearchTerms : FindSimilar(t)

SpecOwn == InitOwn /\ [][NextOwn]_vars

(***************************************************************************)
(* The suggestions of the health check, as a function of the status it is  *)
(* handed; the statuses are those quick_status returns for catalogs around *)
(* the size and the coverages the suggestions turn on.                     *)
(***************************************************************************)
\* elif total_meds < 1000
FewMedications == 1000

\* IMSSQuickChecker.suggest_next_steps; normalization_percentage is held in
\* tenths of a percent
suggest_next_steps(status) ==
    IF status.status = "no_database" THEN <<"sincronizacion_inicial">>
    ELSE IF status.status = "error" THEN <<"verificar_integridad">>
    ELSE LET total_meds         == status.total_medications
             normalized_percent == status.normalization_percentage
             has_optimization   == status.optimization_table_exists
         IN  (IF total_meds = 0 THEN <<"base_vacia">>
              ELSE IF total_meds < FewMedications THEN <<"pocos_medicamentos">>
              ELSE <<>>)
             \o (IF normalized_percent < 100 THEN <<"normalizacion_inicial">>
                 ELSE IF normalized_percent < 900 THEN <<"completar_normalizacion">>
                 ELSE <<>>)
             \o (IF ~has_optimization THEN <<"crear_tabla">> ELSE <<>>)
             \o (IF normalized_percent > 900 /\ has_optimization
                 THEN <<"sistema_listo">> ELSE <<>>)

\* catalog sizes around FewMedications
SuggestTotals == {0, 1, FewMedications - 1, FewMedications, FewMedications + 1}

\* coverages, in thousandths of the catalog
SuggestCoverages == {0, 99, 100, 500, 501, 899, 900, 901, 1000}

SuggestSummaries ==
    {p \in [file : BOOLEAN, medT : BOOLEAN, col : BOOLEAN, paT : BOOLEAN,
            total : SuggestTotals,
            normalized : {(t * c) \div 1000 : t \in SuggestTotals, c \in SuggestCoverages},
            grouped : 0..1, queryFails : BOOLEAN] :
        /\ p.medT => p.file
        /\ p.paT => p.file
        /\ p.col => p.medT
        /\ p.queryFails => p.file
        /\ ~p.medT => p.total = 0
        /\ p.normalized <= p.total
        /\ ~p.col => p.normalized = 0
        /\ p.grouped <= p.normalized
        /\ ~p.paT => p.grouped = 0}

InitSuggest ==
    /\ shared = FALSE
    /\ disk = NoFile
    /\ txn = <<>>
    /\ ret = [op |-> "none"]
    /\ faults = 0
    /\ probe \in SuggestSummaries
    /\ pass = Idle
    /\ reader = Idle
    /\ race = NoRace

\* quick_check: status = checker.quick_status(), then
\* checker.suggest_next_steps(status)
SuggestProbe ==
    /\ ret' = [op |-> "suggest_next_steps",
               status |-> QuickStatus(probe.file, probe.medT, probe.col, probe.paT,
                                      probe.total, probe.normalized, probe.grouped,
                                      probe.queryFails),
               suggestions |-> suggest_next_steps(
                                QuickStatus(probe.file, probe.medT, probe.col, probe.paT,
                                            probe.total, probe.normalized, probe.grouped,
                                            probe.queryFails))]
    /\ UNCHANGED <<disk, txn, shared, faults, probe, pass, reader, race>>

NextSuggest == SuggestProbe

SpecSuggest == InitSuggest /\ [][NextSuggest]_vars

(***************************************************************************)
(* Two normalization passes on the same store file, each constructed with  *)
(* the path and so on a connection of its own, statement by statement.     *)
(* sqlite3 opens a transaction before the first UPDATE or DELETE of a      *)
(* pass; that statement takes the write lock of the file, which one        *)
(* connection holds at a time until it commits or is dropped.  A           *)
(* connection that finds the lock taken waits for it, and raises           *)
(* "database is locked" when the wait outlasts its timeout.                *)
(***************************************************************************)
Writers == {1, 2}

\* a writer that has not called normalize_database yet
RaceIdle == [pc |-> "idle", writing |-> FALSE, unflagged |-> FALSE]

\* a writer whose call has returned or raised
RaceEnded(estado, unflagged) ==
    [pc |-> "ended", writing |-> FALSE, unflagged |-> unflagged, estado |-> estado]

\* _get_connection: sqlite3.connect(db_path), a connection per call; the
\* store grants its write lock to w when no other connection holds it
CanWriteUncoordinated(w) == TRUE

CanWrite(w) == \A v \in Writers \ {w} : ~race[v].writing

\* the store as the connection of w sees it
ViewOf(w) == IF race[w].writing THEN View ELSE disk

InitRace ==
    /\ shared = FALSE
    /\ disk \in PassStores
    /\ txn = <<>>
    /\ ret = [op |-> "none"]
    /\ faults = 0
    /\ probe = NoProbe
    /\ pass = Idle
    /\ reader = Idle
    /\ race = [w \in Writers |-> RaceIdle]

\* normalize_database up to cursor.fetchall() of the records: with the flag
\* 'true' the call returns the statistics at once
RaceBegin(w) ==
    /\ race[w].pc = "idle"
    /\ IF FlagTrue(disk)
       THEN /\ race' = [race EXCEPT ![w] = RaceEnded("ya_completada", FALSE)]
            /\ ret' = [op |-> "normalize_database", estado |-> "ya_completada",
                       conn_closed |-> TRUE,
                       medicamentos_actualizados |->
                            get_normalization_stats(disk).medicamentos_actualizados,
                       principios_activos_encontrados |->
                            get_normalization_stats(disk).principios_activos_encontrados]
       ELSE /\ race' = [race EXCEPT ![w] =
                        [pc |-> "update", writing |-> FALSE, unflagged |-> TRUE,
                         medicamentos |-> disk.meds, todo |-> DOMAIN disk.meds]]
            /\ UNCHANGED ret
    /\ UNCHANGED <<disk, txn, shared, faults, probe, pass, reader>>

\* one turn of the update loop, for the fetched row `clave`
RaceUpdate(w, clave) ==
    /\ race[w].pc = "update" /\ clave \in race[w].todo
    /\ CanWrite(w)
    /\ txn' = <<UpdateOne(ViewOf(w), race[w].medicamentos, clave)>>
    /\ race' = [race EXCEPT ![w].todo = race[w].todo \ {clave}, ![w].writing = TRUE]
    /\ UNCHANGED <<disk, shared, ret, faults, probe, pass, reader>>

\* DELETE FROM principios_activos, after the last turn of the update loop
RaceDelete(w) ==
    /\ race[w].pc = "update" /\ race[w].todo = {}
    /\ CanWrite(w)
    /\ txn' = <<DeleteGroups(ViewOf(w))>>
    /\ race' = [race EXCEPT ![w] =
                    [pc |-> "group", writing |-> TRUE, unflagged |-> TRUE,
                     medicamentos |-> race[w].medicamentos]]
    /\ UNCHANGED <<disk, shared, ret, faults, probe, pass, reader>>

\* the SELECT ... GROUP BY and its fetchall()
RaceSelectGroups(w) ==
    /\ race[w].pc = "group"
    /\ Now <= MaxClock
    /\ race' = [race EXCEPT ![w] =
                    [pc |-> "insert", writing |-> race[w].writing, unflagged |-> TRUE,
                     medicamentos |-> race[w].medicamentos,
                     grupos_principios |-> GroupSelect(ViewOf(w)),
                     todo |-> DOMAIN GroupSelect(ViewOf(w)), now |-> Now]]
    /\ UNCHANGED <<disk, txn, shared, ret, faults, probe, pass, reader>>

\* one turn of the insert loop, for the group `principio`: the INSERT
\* raises IntegrityError when principios_activos holds the token already
\* (principio_activo_normalizado TEXT UNIQUE), and the call ends there
RaceInsert(w, principio) ==
    /\ race[w].pc = "insert" /\ principio \in race[w].todo
    /\ CanWrite(w)
    /\ IF principio \in DOMAIN ViewOf(w).groups
       THEN /\ txn' = <<>>
            /\ race' = [race EXCEPT ![w] = RaceEnded("unique", TRUE)]
            /\ ret' = [op |-> "normalize_database", estado |-> "error", at |-> "insert",
                       conn_closed |-> FALSE]
       ELSE /\ txn' = <<InsertGroups(ViewOf(w), race[w].grupos_principios,
                                     {principio}, race[w].now)>>
            /\ race' = [race EXCEPT ![w].todo = race[w].todo \ {principio},
                                    ![w].writing = TRUE]
            /\ UNCHANGED ret
    /\ UNCHANGED <<disk, shared, faults, probe, pass, reader>>

\* INSERT OR REPLACE of the completion flag, after the last turn of the
\* insert loop
RaceMark(w) ==
    /\ race[w].pc = "insert" /\ race[w].todo = {}
    /\ CanWrite(w)
    /\ txn' = <<MarkComplete(ViewOf(w), race[w].now)>>
    /\ race' = [race EXCEPT ![w].pc = "commit", ![w].writing = TRUE]
    /\ UNCHANGED <<disk, shared, ret, faults, probe, pass, reader>>

\* conn.commit(), conn.close() and the return of the statistics
RaceCommit(w) ==
    /\ race[w].pc = "commit"
    /\ disk' = ViewOf(w)
    /\ txn' = <<>>
    /\ ret' = [op |-> "normalize_database", estado |-> "completada",
               conn_closed |-> TRUE,
               medicamentos_actualizados |-> Cardinality(DOMAIN race[w].medicamentos),
               principios_activos_encontrados |->
                    Cardinality(DOMAIN race[w].grupos_principios)]
    /\ race' = [race EXCEPT ![w] = RaceEnded("completada", TRUE)]
    /\ UNCHANGED <<shared, faults, probe, pass, reader>>

\* the first UPDATE or DELETE of the pass finds the write lock taken for
\* longer than the timeout of its connection: OperationalError
RaceLocked(w) ==
    /\ race[w].pc = "update"
    /\ ~race[w].writing
    /\ ~CanWrite(w)
    /\ race' = [race EXCEPT ![w] = RaceEnded("locked", TRUE)]
    /\ ret' = [op |-> "normalize_database", estado |-> "error", at |-> "update",
               conn_closed |-> FALSE]
    /\ UNCHANGED <<disk, txn, shared, faults, probe, pass, reader>>

\* the tokens the records of RawPool canonicalize to
PoolTokens == {Canon(RawPool[i].descripcion, RawPool[i].nombre_generico) : i \in DOMAIN RawPool}

NextRace ==
    \/ \E w \in Writers : RaceBegin(w)
    \/ \E w \in Writers, k \in Keys : RaceUpdate(w, k)
    \/ \E w \in Writers : RaceDelete(w)
    \/ \E w \in Writers : RaceSelectGroups(w)
    \/ \E w \in Writers, t \in PoolTokens : RaceInsert(w, t)
    \/ \E w \in Writers : RaceMark(w)
    \/ \E w \in Writers : RaceCommit(w)
    \/ \E w \in Writers : RaceLocked(w)

SpecRace == InitRace /\ [][NextRace]_vars

(***************************************************************************)
(* Properties.                                                             *)
(***************************************************************************)
\* the last call was normalize_database and returned `estado`
Normalized(estado) == ret.op = "normalize_database" /\ ret.estado = estado

\* C1: a normalize() that directly follows a normalize() that returned
\* leaves the committed store and the connection's transaction as they
\* were (records, group rows, flag and timestamps) and returns
\* estado = ya_completada.
C1_SecondNormalizeIsNoOp ==
    [][(/\ Normalized("completada") \/ Normalized("ya_completada")
        /\ Normalize(NoFault))
       => (/\ disk' = disk
           /\ txn' = txn
           /\ ret'.estado = "ya_completada")]_vars

C1_Witness ==
    /\ Normalized("ya_completada")
    /\ ret.medicamentos_actualizados > 0
    /\ DOMAIN disk.groups # {}
    /\ FlagTrue(disk)

\* every non-empty canonical value of a record has a group row whose member
\* count is the number of records with that value
TokensGrouped(s) ==
    \A t \in TokensOf(s) :
        /\ t \in DOMAIN s.groups
        /\ s.groups[t].total_medicamentos = Cardinality(Members(s, t))

\* C2: when normalize() has run the full pass to completion, every
\* non-empty canonical token held by a record has its group row (one, the
\* token being the key of the table), whose member count is the number of
\* records with that token.
C2_GroupPerToken ==
    Normalized("completada") => TokensGrouped(disk) /\ txn = <<>>

C2_Witness ==
    /\ Normalized("completada")
    /\ \E t \in DOMAIN disk.groups : disk.groups[t].total_medicamentos = 2

\* the records' canonical fields are consistent with the group table: each
\* group row counts the records that hold its token, and every non-empty
\* canonical value of a record has a group row
Consistent(s) ==
    /\ \A g \in DOMAIN s.groups :
            s.groups[g].total_medicamentos = Cardinality(Members(s, g))
    /\ TokensOf(s) \subseteq DOMAIN s.groups

FlagInvariant(s) == FlagTrue(s) => Consistent(s)

\* C3 (as stated): in every reachable state, if the completion flag is
\* 'true' then the records' canonical fields are consistent with the group
\* table.
C3_FlagImpliesConsistent == FlagInvariant(disk)

\* C3 (amended): the pass that sets the completion flag leaves the records
\* consistent with the group table, and every operation other than an
\* upsert that stores a record keeps them so while the flag is 'true'.
C3_ConsistentUntilUpsert ==
    [][(/\ ~(ret'.op = "add_medication" /\ ret'.ok)
        /\ FlagInvariant(disk))
       => FlagInvariant(disk')]_vars

C3_Witness ==
    /\ ret.op = "setup_optimization_tables"
    /\ FlagTrue(disk)
    /\ Consistent(disk)
    /\ \E g \in DOMAIN disk.groups : disk.groups[g].total_medicamentos = 2

\* the last call was a normalization pass that raised
Aborted == Normalized("error")

\* C4: a normalization pass in which a statement fails (the read of the
\* flag, the read of the records, a record update, the delete, the grouping
\* query, a group insert or the write of the flag) raises, and after a pass
\* that raised the completion flag is 'true', in the committed store and in
\* the store as the connection sees it, only if it was 'true' before.
C4_NoFlagOnFailure ==
    [][/\ faults' # faults => ret'.op = "normalize_database" /\ ret'.estado = "error"
       /\ (ret'.op = "normalize_database" /\ ret'.estado = "error")
            => /\ FlagTrue(disk') => FlagTrue(disk)
               /\ FlagTrue(View') => FlagTrue(View)]_vars

C4_Witness ==
    /\ Aborted
    /\ ret.at = "mark"
    /\ txn # <<>>
    /\ DOMAIN View.groups # {}
    /\ ~FlagTrue(View)
    /\ ~FlagTrue(disk)

\* the statements after which a pass has updated a subset of the records
AfterUpdates == {"update", "delete", "group", "insert", "mark"}

\* the canonical values, the group tokens with their counts, and the flag
Normalization(s) ==
    [canonical |-> [k \in DOMAIN s.meds |-> s.meds[k].principio_activo_normalizado],
     counts    |-> [g \in DOMAIN s.groups |-> s.groups[g].total_medicamentos],
     flag      |-> FlagTrue(s)]

\* C5: when a pass has aborted after updating a subset of the records, the
\* completion flag is false, and a normalize() that follows and runs to
\* completion ends in the canonical values, the group table (tokens and
\* counts) and the flag of one uninterrupted pass over the catalog the
\* aborted pass started from.
C5_RetryEqualsSinglePass ==
    /\ [](Aborted /\ ret.at \in AfterUpdates => ~FlagTrue(disk) /\ ~FlagTrue(View))
    /\ [][(/\ Aborted
           /\ ret.at \in AfterUpdates
           /\ Normalize(NoFault)
           /\ ret'.estado = "completada")
          => /\ txn' = <<>>
             /\ FlagTrue(disk')
             /\ Normalization(disk')
                    = Normalization(normalize_database(disk, NoFault, Now).store)]_vars

C5_Witness ==
    /\ Aborted
    /\ ret.at = "update"
    /\ txn # <<>>
    /\ NormalizedKeys(View) # {}
    /\ NormalizedKeys(View) # DOMAIN View.meds
    /\ NormalizedKeys(disk) = {}

\* C6: after a full pass, also one that starts with group rows left by an
\* earlier pass, the tokens of the group table are the distinct non-empty
\* canonical values of the records: no stale row, no empty or NULL token.
C6_GroupsAreRebuilt ==
    Normalized("completada") =>
        /\ DOMAIN disk.groups = TokensOf(disk)
        /\ <<>> \notin DOMAIN disk.groups
        /\ NULL \notin DOMAIN disk.groups

\* the rows of the pass carry a timestamp later than one already stored:
\* the pass started with the rows of an earlier one
C6_Witness ==
    /\ Normalized("completada")
    /\ faults > 0
    /\ \E g \in DOMAIN disk.groups : disk.groups[g].fecha_normalizacion > 1

\* `needle` occurs in `text` as it is written, letter case apart
ContainsLiteral(needle, text) ==
    \E i \in 0..(Len(text) - Len(needle)) :
        SubSeq(upper(text), i + 1, i + Len(needle)) = upper(needle)

Searched == ret.op = "find_similar_medications" /\ ret.estado = "ok"

\* C7 (as stated): findSimilar(term) returns exactly the groups whose token
\* contains canonicalize(term) as a literal substring, letter case apart,
\* each with the keys of exactly the records whose canonical field is that
\* token, ordered by member count descending.
C7_LiteralSubstringSearch ==
    Searched =>
        LET q == ret.resultados
            expected == {g \in DOMAIN View.groups :
                            ContainsLiteral(SearchNormalized(ret.search_term), g)}
        IN  /\ {q[i].principio_activo : i \in DOMAIN q} = expected
            /\ Len(q) = Cardinality(expected)
            /\ \A i \in DOMAIN q : q[i].claves = Members(View, q[i].principio_activo)
            /\ \A i, j \in DOMAIN q :
                    i < j => q[i].total_medicamentos >= q[j].total_medicamentos

PARACETAMOL == <<"P", "A", "R", "A", "C", "E", "T", "A", "M", "O", "L">>

IBUPROFENO == <<"I", "B", "U", "P", "R", "O", "F", "E", "N", "O">>

METFORMINA == <<"M", "E", "T", "F", "O", "R", "M", "I", "N", "A">>

\* the example catalog is stored as ingested and normalize() has completed
ExampleNormalized ==
    /\ Normalized("completada")
    /\ DOMAIN disk.meds = DOMAIN ExampleCatalog
    /\ \A k \in DOMAIN disk.meds :
            /\ disk.meds[k].descripcion = ExampleCatalog[k].descripcion
            /\ disk.meds[k].nombre_generico = ExampleCatalog[k].nombre_generico

\* C8 (as stated): for the example catalog, normalize() yields the tokens
\* PARACETAMOL, PARACETAMOL, IBUPROFENO, METFORMINA, a group table of 3 rows
\* and a PARACETAMOL group with member count 2.
C8_ExampleTokens ==
    ExampleNormalized =>
        /\ disk.meds[1].principio_activo_normalizado = PARACETAMOL
        /\ disk.meds[2].principio_activo_normalizado = PARACETAMOL
        /\ disk.meds[3].principio_activo_normalizado = IBUPROFENO
        /\ disk.meds[4].principio_activo_normalizado = METFORMINA
        /\ Cardinality(DOMAIN disk.groups) = 3
        /\ PARACETAMOL \in DOMAIN disk.groups
        /\ disk.groups[PARACETAMOL].total_medicamentos = 2

Checked == ret.op = "quick_status"

\* the count of normalized records quick_status works with
ProbeNormalized == IF probe.col THEN probe.normalized ELSE 0

\* C9: quickStatus() returns no_database iff the store file is absent,
\* error iff a query fails (the catalog table is missing, or another
\* failure), and otherwise ready iff normalized / total * 100 > 90, and
\* needs_optimization in every other case, coverage of exactly 90 and the
\* empty catalog among them.
C9_StatusClassification ==
    Checked =>
        /\ ret.status = "no_database" <=> ~probe.file
        /\ ret.status = "error" <=> probe.file /\ (~probe.medT \/ probe.queryFails)
        /\ ret.status \notin {"no_database", "error"} =>
                /\ ret.status \in {"ready", "needs_optimization"}
                /\ ret.status = "ready" <=>
                        probe.total > 0 /\ 10 * ProbeNormalized > 9 * probe.total

C9_Witness ==
    /\ Checked
    /\ ret.status = "needs_optimization"
    /\ probe.total > 0
    /\ 10 * ProbeNormalized = 9 * probe.total

\* C10: in every result of quickStatus() that is not an error, readyForUse
\* is true iff normalized / total * 100 > 50 and the group table exists; for
\* an empty catalog the result is not an error, the coverage is 0 and
\* readyForUse is false.
C10_ReadyForUse ==
    /\ (Checked /\ ret.status \notin {"no_database", "error"}) =>
            /\ ret.optimization_table_exists = probe.paT
            /\ ret.ready_for_use <=>
                    /\ probe.total > 0
                    /\ 2 * ProbeNormalized > probe.total
                    /\ probe.paT
    /\ (Checked /\ probe.medT /\ ~probe.queryFails /\ probe.total = 0) =>
            /\ ret.status = "needs_optimization"
            /\ ret.normalization_percentage = 0
            /\ ret.ready_for_use = FALSE

C10_Witness ==
    /\ Checked
    /\ probe.total = 0
    /\ probe.paT
    /\ ret.status = "needs_optimization"
    /\ ret.normalization_percentage = 0
    /\ ~ret.ready_for_use

\* the step is an inspection that returned its report
InspectStep == ret'.op = "get_inspection_report" /\ ret'.estado = "ok"

CreateTablesItem == <<"Ejecutar modulo de optimizacion para crear tablas de normalizacion">>

\* the store has the completion flag 'true', no record without a canonical
\* value and the index on the canonical column
FlagNoneLeftIndexed(s) ==
    /\ s.metaT /\ FlagTrue(s)
    /\ (s.col => NormalizedKeys(s) = DOMAIN s.meds)
    /\ IngredientIndexes \subseteq s.idx

\* C11 (as stated): an inspection of a store whose derived tables do not both
\* exist recommends creating the normalization tables, and an inspection of a
\* store with the flag 'true', no unnormalized record and the ingredient
\* index recommends nothing, an empty catalog included.
C11_NothingToRecommend ==
    [][InspectStep =>
        /\ ~(disk'.paT /\ disk'.metaT) =>
              \E i \in DOMAIN ret'.recommendations :
                  ret'.recommendations[i] = CreateTablesItem
        /\ FlagNoneLeftIndexed(disk') => ret'.recommendations = <<>>]_vars

\* C11 (amended): an inspection of a store whose derived tables do not both
\* exist recommends creating the normalization tables; with the flag 'true',
\* no unnormalized record and the ingredient index, the list is empty when
\* the group table holds at least one row, and is exactly the advice to
\* generate the group table when it holds none (an empty catalog).
C11_NothingToRecommendWithGroups ==
    [][InspectStep =>
        /\ ~(disk'.paT /\ disk'.metaT) =>
              \E i \in DOMAIN ret'.recommendations :
                  ret'.recommendations[i] = CreateTablesItem
        /\ (FlagNoneLeftIndexed(disk') /\ disk'.paT) =>
              ret'.recommendations =
                 IF DOMAIN disk'.groups # {} THEN <<>>
                 ELSE << <<"Generar tabla de principios activos agrupados">> >>]_vars

C11_Witness ==
    /\ ret.op = "get_inspection_report" /\ ret.estado = "ok"
    /\ FlagNoneLeftIndexed(disk) /\ DOMAIN disk.groups # {}
    /\ ret.normalization_status.normalization_completed
    /\ ret.recommendations = <<>>

\* the last call was the quality analysis of the summarized store
Analysed == ret.op = "analyze_active_ingredients" /\ ret.estado = "ok"

\* p hundredths of a percent is the multiple of 0.01 nearest to n / t * 100
NearestHundredth(p, n, t) == 2 * (IF p * t >= 10000 * n THEN p * t - 10000 * n
                                  ELSE 10000 * n - p * t) <= t

SetupStep == ret'.op = "setup_optimization_tables"

\* the schema setup_optimization_tables ensures
FullSchema(s) == s.medT /\ s.col /\ s.paT /\ s.metaT /\ OptIndexes \subseteq s.idx

\* C13: from every store that has the catalog table, a call of ensureSchema
\* succeeds and leaves the canonical column, the group table, the metadata
\* table and the three indexes; a second call right after a successful one
\* succeeds too and leaves the store exactly as the first one left it.
C13_EnsureSchemaIdempotent ==
    [][SetupStep =>
        /\ View.medT => /\ ret'.ok
                        /\ FullSchema(View') /\ txn' = <<>>
                        /\ DOMAIN View'.meds = DOMAIN View.meds
        /\ (ret.op = "setup_optimization_tables" /\ ret.ok) =>
                /\ ret'.ok
                /\ disk' = disk /\ txn' = txn]_vars

\* a catalog of an earlier version has been given the column, the tables
\* and the indexes, its records keeping a NULL canonical value
C13_Witness ==
    /\ ret.op = "setup_optimization_tables" /\ ret.ok
    /\ FullSchema(disk)
    /\ \E k \in DOMAIN disk.meds : disk.meds[k].principio_activo_normalizado = NULL

\* C14 (as stated): in ensureSchema only the duplicate-definition failure of
\* a DDL step is swallowed; when the add-column step fails because the
\* catalog table is missing, initialization aborts with an error at that
\* step, so the call fails and no later DDL step has run.
C14_MissingTableAbortsAtAddColumn ==
    [][(SetupStep /\ ~View.medT) =>
        /\ ~ret'.ok
        /\ View'.paT = View.paT /\ View'.metaT = View.metaT
        /\ View'.idx = View.idx]_vars

\* the last call was a reader that raised instead of returning a result
ReaderRaised ==
    /\ ret.op \in {"find_similar_medications", "get_inspection_report"}
    /\ ret.estado = "error"

\* C15 (as stated): findSimilar, inspect, quickStatus and comparePerformance
\* never raise to the caller; when a query fails or the store is missing
\* (file, catalog table or group table absent) they return a structured
\* result with an error status.
C15_ReadersNeverRaise == ~ReaderRaised

\* C16 (as stated): every operation that opens a connection of its own has
\* closed it when it exits, on the success path and on every failure path,
\* so that no connection is left open after any sequence of operations.
C16_ConnectionReleasedOnExit == ret.op # "none" => ret.conn_closed

\* the operations that only read
ReaderOps ==
    {"find_similar_medications", "get_inspection_report", "quick_status",
     "test_search_performance"}

\* the schema and the rows of a store
Contents(s) ==
    [medT |-> s.medT, col |-> s.col, paT |-> s.paT, metaT |-> s.metaT, idx |-> s.idx,
     meds |-> s.meds, groups |-> s.groups, meta |-> s.meta]

\* C17: findSimilar, inspect, quickStatus and comparePerformance leave the
\* record rows, the group rows, the metadata rows and the schema as they
\* were, whatever their input and whether they return or raise; nor do they
\* touch an open transaction.  (All a reader can do to the store is create
\* the empty database file when findSimilar connects to a missing one.)
C17_ReadersLeaveStore ==
    [][ret'.op \in ReaderOps =>
        /\ Contents(disk') = Contents(disk)
        /\ txn' = txn
        /\ (disk' # disk => ~disk.file /\ ret'.op = "find_similar_medications")]_vars

\* a search that returned rows, over a store that holds records and groups
C17_Witness ==
    /\ ret.op = "find_similar_medications" /\ ret.estado = "ok"
    /\ Len(ret.resultados) > 0
    /\ DOMAIN disk.meds # {} /\ DOMAIN disk.groups # {} /\ FlagTrue(disk)

\* the step is a full normalization pass that committed
FullPassStep == ret'.op = "normalize_database" /\ ret'.estado = "completada"

\* the group rows `g` hold the tokens and the member counts of the store `s`
SameGroups(g, s) ==
    /\ DOMAIN g = DOMAIN s.groups
    /\ \A t \in DOMAIN g : g[t].total_medicamentos = s.groups[t].total_medicamentos

\* C18: the outcome of a normalization pass does not depend on the order in
\* which the records, or the groups, are processed: taking the fetched rows
\* in any permutation gives every record the canonical token the pass left,
\* the same token for records with the same description and generic name,
\* and inserting the groups in any permutation gives the
\* tokens and member counts of the group table the pass left.
C18_OrderIndependent ==
    [][FullPassStep =>
        \A o \in FetchOrders(DOMAIN View.meds) :
            LET u == UpdateLoop(View, View.meds, o)
            IN  /\ u.meds = disk'.meds
                /\ \A j, k \in DOMAIN u.meds :
                        (/\ u.meds[j].descripcion = u.meds[k].descripcion
                         /\ u.meds[j].nombre_generico = u.meds[k].nombre_generico)
                        => u.meds[j].principio_activo_normalizado
                                = u.meds[k].principio_activo_normalizado
                /\ \A q \in FetchOrders(TokensOf(u)) :
                        SameGroups(InsertLoop(DeleteGroups(u), GroupSelect(u), q, 0).groups,
                                   disk')]_vars

\* a pass over two records, which can be taken in two orders, that left
\* two groups, which can be inserted in two orders
C18_Witness ==
    /\ Normalized("completada")
    /\ Cardinality(DOMAIN disk.meds) = NumKeys
    /\ Cardinality(DOMAIN disk.groups) >= 2
    /\ \A k \in DOMAIN disk.meds : disk.meds[k].principio_activo_normalizado # <<>>

\* the stores hold the same records, equal in every field but the canonical one
SameRecords(a, b) ==
    /\ DOMAIN a.meds = DOMAIN b.meds
    /\ \A k \in DOMAIN a.meds :
            \A f \in (DOMAIN a.meds[k]) \ {"principio_activo_normalizado"} :
                a.meds[k][f] = b.meds[k][f]

\* C20: a call of normalize, whether it runs the full pass, returns at once
\* because the flag is set, or fails, inserts no record and deletes none,
\* and changes no field of a record other than the canonical one, in the
\* committed store and in the open transaction alike.
C20_OnlyCanonicalFieldChanges ==
    [][ret'.op = "normalize_database" =>
        /\ SameRecords(disk, disk')
        /\ SameRecords(View, View')]_vars

\* a full pass that gave a record a canonical value different from both of
\* its source fields
C20_Witness ==
    /\ Normalized("completada")
    /\ ret.medicamentos_actualizados > 0
    /\ \E k \in DOMAIN disk.meds :
            /\ disk.meds[k].principio_activo_normalizado \notin {NULL, <<>>}
            /\ disk.meds[k].principio_activo_normalizado # disk.meds[k].descripcion
            /\ disk.meds[k].principio_activo_normalizado # disk.meds[k].nombre_generico

\* a pass is between its fetch of the records and its return
InProgress == pass.pc # "idle"

\* every row the pass fetched has had its UPDATE
AllUpdated ==
    \A k \in DOMAIN pass.medicamentos :
        View.meds[k].principio_activo_normalizado
            = Canon(pass.medicamentos[k].descripcion, pass.medicamentos[k].nombre_generico)

\* the inspection in progress has read the completion flag as 'true'
ObservedFlag ==
    \/ reader.pc = "counts" /\ reader.normalization_completed
    \/ reader.pc = "analysis" /\ reader.norm_status.normalization_completed

Rows(s) == [meds |-> s.meds, groups |-> s.groups, meta |-> s.meta]

\* C21 (as stated): ensureSchema changes no row data: the committed rows of
\* the catalog, of the group table and of the metadata table are the same
\* after the call as before it, also when it is called on a shared
\* connection on which a normalization pass failed part-way.
C21_EnsureSchemaKeepsRows ==
    [][SetupStep => Rows(disk') = Rows(disk)]_vars

\* the last search was for a term whose canonical form is the empty string
SearchedEmpty == Searched /\ SearchNormalized(ret.search_term) = <<>>

\* C22: a search for a term whose canonical form is the empty string (the
\* empty term, a term made of a form noun and a concentration) returns
\* every group that at least one record holds, each once.
C22_EmptyTermMatchesAll ==
    SearchedEmpty =>
        /\ {ret.resultados[i].principio_activo : i \in DOMAIN ret.resultados}
                = {g \in DOMAIN View.groups : Members(View, g) # {}}
        /\ Len(ret.resultados)
                = Cardinality({g \in DOMAIN View.groups : Members(View, g) # {}})

\* a term of stripped words only has returned both groups of the store
C22_Witness ==
    /\ SearchedEmpty
    /\ ret.search_term # <<>>
    /\ Len(ret.resultados) = 2

\* the canonicalizer has returned the token of the text of `probe`
CanonReturned == ret.op = "normalize_active_ingredient"

\* the words of the vocabulary that are salts
SaltIndexes == {i \in DOMAIN Vocabulary : lower(Vocabulary[i]) \in Range(SaltWords)}

\* the positions of the text that hold a salt prefix: a salt followed by
\* another word
SaltPrefixes ==
    {i \in 1..(Len(probe.words) - 1) : probe.words[i] \in SaltIndexes}

\* C23 (as stated): the salt-prefix step removes only the first salt prefix
\* of a text: with two salt prefixes in the input, the second one remains
\* in the canonical token.
C23_SecondSaltRemains ==
    (CanonReturned /\ Cardinality(SaltPrefixes) >= 2) =>
        LET first  == CHOOSE i \in SaltPrefixes : \A j \in SaltPrefixes : i <= j
            rest   == SaltPrefixes \ {first}
            second == CHOOSE i \in rest : \A j \in rest : i <= j
        IN  ContainsLiteral(Vocabulary[probe.words[second]], ret.token)

\* C23 (amended): the salt-prefix step removes every salt prefix of a text
\* (a salt followed by white space, with its optional "de"): with two salt
\* prefixes in the input neither remains in the canonical token; a salt
\* stays only as the last word of the text, where no white space follows it.
C23_EverySaltPrefixRemoved ==
    CanonReturned =>
        \A w \in SaltIndexes :
            ContainsLiteral(Vocabulary[w], ret.token)
                <=> (probe.words # <<>> /\ probe.words[Len(probe.words)] = w)

\* a text of two different salt prefixes and a name, of which the name is left
C23_Witness ==
    /\ CanonReturned
    /\ Cardinality(SaltPrefixes) = 2
    /\ probe.words[1] # probe.words[2]
    /\ ret.token = <<"A", "B">>

\* an upper-case string of letters, digits and single spaces, without a
\* space at either end; the empty string is one
WellFormedToken(token) ==
    /\ token # NULL
    /\ \A i \in DOMAIN token : token[i] \in Range(UpperLetters) \cup Digits \cup {" "}
    /\ token # <<>> => token[1] # " " /\ token[Len(token)] # " "
    /\ \A i \in 1..(Len(token) - 1) : ~(token[i] = " " /\ token[i + 1] = " ")

\* C24 (as stated): the token canonicalize returns is the empty string or an
\* upper-case string made only of alphanumeric characters and single
\* spaces, with no space at either end and no other character such as an
\* underscore.
C24_TokenAlphanumeric == CanonReturned => WellFormedToken(ret.token)

\* the last call was normalize_database and it returned a result
NormalizeSucceeded ==
    /\ ret.op = "normalize_database"
    /\ ret.estado \in {"completada", "ya_completada"}

\* C25 (as stated): after every successful sync (the upsert of the parsed
\* records followed by normalize), a second sync after the completion flag
\* is set included, every stored record's canonical field is the
\* canonicalizer's value for its description and generic name.
C25_CanonicalAfterEverySync ==
    NormalizeSucceeded =>
        \A k \in DOMAIN disk.meds :
            disk.meds[k].principio_activo_normalizado
                = Canon(disk.meds[k].descripcion, disk.meds[k].nombre_generico)

\* C26 (as stated): the counts returned by a normalize call that ran the
\* pass equal the counts returned by the call that follows it at once and
\* finds the pass done, also when records canonicalize to the empty string.
C26_SameCountsOnRepeat ==
    [][(/\ Normalized("completada")
        /\ ret'.op = "normalize_database" /\ ret'.estado = "ya_completada")
       => /\ ret'.medicamentos_actualizados = ret.medicamentos_actualizados
          /\ ret'.principios_activos_encontrados = ret.principios_activos_encontrados]_vars

\* C27 (as stated): once a normalization pass has completed, a search for
\* a token of the table of groups returns the group of that token.
C27_StoredTokenFindsOwnGroup ==
    (/\ Searched
     /\ ret.search_term \in DOMAIN disk.groups
     /\ FlagTrue(disk))
        => \E i \in DOMAIN ret.resultados :
                ret.resultados[i].principio_activo = ret.search_term

\* C28: in every store state reached by setting up the schema, upserting
\* records and normalizing, a quick status of "ready" comes with
\* ready_for_use = TRUE.
C28_ReadyImpliesReadyForUse ==
    (Checked /\ ret.status = "ready") => ret.ready_for_use

C28_Witness ==
    /\ Checked
    /\ ret.status = "ready"
    /\ ret.ready_for_use
    /\ disk.paT
    /\ ret.total_medications = NumKeys

Suggested == ret.op = "suggest_next_steps"

\* C29 (as stated): for every status of quick_status that reads
\* needs_optimization, suggest_next_steps returns at least one suggestion,
\* also when the reported coverage is exactly 90, the table of groups
\* exists and the catalog holds FewMedications records or more.
C29_SuggestionForNeedsOptimization ==
    (Suggested /\ ret.status.status = "needs_optimization") => ret.suggestions # <<>>

\* both passes have returned or raised
RaceOver == \A w \in Writers : race[w].pc = "ended"

\* both passes read the completion flag before either had committed it
BothUnflagged == \A w \in Writers : race[w].unflagged

\* C30: when two normalization passes over the same catalog have both read
\* the completion flag as not set and both have ended, neither has failed
\* on a duplicate group token, the completion flag is set, and the store
\* holds one group row per distinct non-empty token, with the count of its
\* members.
C30_RacingPassesEndConsistent ==
    (RaceOver /\ BothUnflagged) =>
        /\ \A w \in Writers : race[w].estado # "unique"
        /\ txn = <<>>
        /\ FlagTrue(disk)
        /\ Consistent(disk)

\* both passes ran to their commit, the second after waiting for the first
C30_Witness ==
    /\ RaceOver /\ BothUnflagged
    /\ \A w \in Writers : race[w].estado = "completada"
    /\ Cardinality(DOMAIN disk.meds) = NumKeys
    /\ DOMAIN disk.groups # {}
    /\ Consistent(disk)

====
